---- MODULE Spec2Model ----
(***************************************************************************)
(* Model of the bloom tutoring agent: the five state nodes and routers of  *)
(* bloom/tutor_agent.py, the request handlers of bloom/routes/student.py   *)
(* that drive them (start_session, post_chat_message, retry_last_message), *)
(* the tables of bloom/database.py they read and write, the retry loop of   *)
(* LLMClient.generate, the same handlers as coroutines that interleave at   *)
(* their awaits, and the administrative requests of bloom/routes/admin.py   *)
(* (syllabus upload, progress reset) with the cascades of the schema.       *)
(*                                                                         *)
(* Texts are symbolic: a message content or a model response is a string   *)
(* that names it.  Timestamps, logging, HTML rendering and the whiteboard  *)
(* image cache (which touches no TutorState field) are left out.           *)
(***************************************************************************)
EXTENDS Integers, Sequences, FiniteSets, TLC

VARIABLES
    agent_checkpoints,   \* table agent_checkpoints: session_id -> <<>> | <<state_data>>
    sessions,            \* table sessions: session_id -> <<>> | <<row>>
    messages_db,         \* table messages: session_id -> sequence of [role, content]
    cached_expositions,  \* table cached_expositions: subtopic_id -> <<>> | <<row>>
    progress,            \* table progress: subtopic_id -> <<>> | <<row>>
    route_map,           \* the routing function used for each node ("real" = the module's own)
    ops,                 \* number of requests handled so far
    last,                \* the last request handled: what it was given and what it ran
    store_log,           \* the writes made directly to the checkpoint and cache tables, in order
    subtopics,           \* table subtopics: the ids of the syllabus loaded
    sqlite_sequence,     \* AUTOINCREMENT of table sessions: the largest id ever given
    inflight,            \* the requests being handled: slot -> <<>> | <<request>>
    g_pc,                \* LLMClient.generate: position in the retry loop
    g_provider,          \* LLMClient.provider
    g_genai,             \* whether the google.generativeai package can be imported
    g_prompt,            \* LLMClient.generate: argument `prompt`
    g_attempt,           \* LLMClient.generate: loop variable `attempt`
    g_log,               \* LLMClient.generate: provider attempts made, in order
    g_sleeps,            \* LLMClient.generate: asyncio.sleep durations, in order
    g_result             \* LLMClient.generate: <<>> while running, else <<"return"|"raise", value>>

vars == <<agent_checkpoints, sessions, messages_db, cached_expositions, progress,
          route_map, ops, last, store_log, subtopics, sqlite_sequence, inflight, g_pc, g_provider, g_genai, g_prompt,
          g_attempt, g_log, g_sleeps, g_result>>

agent_vars == <<agent_checkpoints, sessions, messages_db, cached_expositions, progress,
                route_map, ops, last, store_log, subtopics, sqlite_sequence, inflight>>

gen_vars == <<g_pc, g_provider, g_genai, g_prompt, g_attempt, g_log, g_sleeps, g_result>>

----------------------------------------------------------------------------
(* Bounds of the model *)

MaxSessions == 2
MaxOps == 4
MaxPathOps == 2
MaxInflight == 2
MaxConcOps == 4

(* Program constants *)

max_iterations == 10
max_retries == 3
COMPLETION_THRESHOLD == 3

SessionIds == 1..MaxSessions
Slots == 1..MaxInflight
SubtopicIds == {101}
Nodes == {"exposition", "questioning", "evaluation", "diagnosis", "socratic"}
LLM_MODEL == "gpt-4o-mini"
None == "None"

subtopic_name_of(subtopic_id) == "Expanding brackets"

----------------------------------------------------------------------------
(* Student inputs and model responses *)

\* What a student may type.
StudentInputs == {"give me a question", "42"}

\* the characters of the texts the model reads character by character
chars(content) ==
    CASE content = "give me a question" ->
           <<"g", "i", "v", "e", " ", "m", "e", " ", "a", " ", "q", "u", "e", "s", "t", "i", "o", "n">>
      [] content = "42" ->
           <<"4", "2">>
      [] content = "QUIZ" ->
           <<"Q", "U", "I", "Z">>
      [] content = "poetry" ->
           <<"p", "o", "e", "t", "r", "y">>
      [] content = "Test me" ->
           <<"T", "e", "s", "t", " ", "m", "e">>
      [] content = "no" ->
           <<"n", "o">>
      [] content = "question" ->
           <<"q", "u", "e", "s", "t", "i", "o", "n">>
      [] content = "practice" ->
           <<"p", "r", "a", "c", "t", "i", "c", "e">>
      [] content = "try" ->
           <<"t", "r", "y">>
      [] content = "test" ->
           <<"t", "e", "s", "t">>
      [] content = "quiz" ->
           <<"q", "u", "i", "z">>
      [] content = "NUMERICAL" ->
           <<"N", "U", "M", "E", "R", "I", "C", "A", "L">>
      [] content = "NON_NUMERICAL" ->
           <<"N", "O", "N", "_", "N", "U", "M", "E", "R", "I", "C", "A", "L">>

\* str.lower(), character by character
lower_char(c) == CASE c = "I" -> "i" [] c = "Q" -> "q" [] c = "T" -> "t" [] c = "U" -> "u" [] c = "Z" -> "z" [] OTHER -> c
lower(content) == [i \in DOMAIN chars(content) |-> lower_char(chars(content)[i])]

\* `word in content`: word occurs in content as a substring
contains(content, word) ==
    \E i \in 1..(Len(content) - Len(chars(word)) + 1) :
        SubSeq(content, i, i + Len(chars(word)) - 1) = chars(word)

GenFail == "GenerationFailure"

ExpoTexts == {"E1"}
FollowupTexts == {"F1"}
QuestionTexts == {"Q1"}
HintTexts == {"H1"}
CalcTexts == {"NUMERICAL", "NON_NUMERICAL"}

\* Responses of the grading call.  NotJson stands for a text json.loads rejects;
\* the others name the value json.loads returns.
NotJson == "not json"
JsonValues == {
    "{correct:true,feedback}",
    "{correct:false,feedback}",
    "{correct:true}",
    "{}",
    "[1]",
    "null" }
EvalTexts == {NotJson} \cup JsonValues

\* json.loads: JSON null is Python None
json_value(text) == IF text = "null" THEN "None" ELSE text

\* Python truthiness of a value stored in state["last_evaluation"]
truthy(v) == v \in {"{correct:true,feedback}", "{correct:false,feedback}",
                    "{correct:true}", "[1]"}
\* whether the value is a dict (has .get)
is_dict(v) == v \in {"{correct:true,feedback}", "{correct:false,feedback}",
                     "{correct:true}", "{}"}
\* evaluation.get("correct", False)
get_correct(v) == v \in {"{correct:true,feedback}", "{correct:true}"}
\* "feedback" in evaluation
has_feedback(v) == v \in {"{correct:true,feedback}", "{correct:false,feedback}"}

\* What llm_client.generate does for each kind of call: it raises (GenFail, after
\* its retries) or returns a text.
Outcomes(kind) ==
    {GenFail} \cup
    CASE kind = "expo" -> ExpoTexts
      [] kind = "followup" -> FollowupTexts
      [] kind = "q" -> QuestionTexts
      [] kind = "calc" -> CalcTexts
      [] kind = "eval" -> EvalTexts
      [] kind = "soc" -> HintTexts

CallKinds == {"expo", "followup", "q", "calc", "eval", "soc"}

\* The generation service during one request: the outcome of each kind of call.
DefaultOracle == [kind \in CallKinds |-> GenFail]

----------------------------------------------------------------------------
(* Messages *)

Msg(role, content) == [role |-> role, content |-> content]

ApologyExposition == "I'm having trouble connecting right now.Please try again in a moment."
ApologyFollowup == "I'm having trouble connecting right now. Please try again in a moment."
ApologyQuestioning == "I'm having trouble generating a question. Let's try again."
ApologyEvaluation == "I had trouble evaluating that. Could you try rephrasing your answer?"
NotQuite == "Not quite."
FallbackHint ==
    "Let's think about this step by step. What's the first thing you need to do when expanding brackets?"
Ack == "ok: feedback"

Apologies == {ApologyExposition, ApologyFollowup, ApologyQuestioning, ApologyEvaluation}

\* The result of running a node: the state it returns, the cache table after it,
\* the generation calls it made, and whether an exception escaped it.
NodeResult(state, cache, calls, raised) ==
    [state |-> state, cache |-> cache, calls |-> calls, raised |-> raised]

----------------------------------------------------------------------------
(* bloom/database.py: the exposition cache *)

\* a variant of get_cached_exposition whose SELECT has no WHERE clause
get_cached_exposition_any_row(cache, subtopic_id) ==
    IF \E k \in DOMAIN cache : cache[k] # <<>>
    THEN cache[CHOOSE k \in DOMAIN cache : cache[k] # <<>>]
    ELSE <<>>

\* SELECT ... WHERE subtopic_id = ?: the row, or nothing
get_cached_exposition(cache, subtopic_id) == cache[subtopic_id]

\* datetime.utcnow(): the clock advances with every operation handled
utcnow == ops

\* a variant of save_cached_exposition that stores the configured model whatever it is given
save_cached_exposition_configured_model(cache, subtopic_id, content, model_identifier) ==
    [cache EXCEPT ![subtopic_id] =
        << [exposition_content |-> content, generated_at |-> utcnow,
            model_identifier |-> LLM_MODEL] >>]

\* a variant of save_cached_exposition with INSERT OR IGNORE
save_cached_exposition_keep_first(cache, subtopic_id, content, model_identifier) ==
    IF cache[subtopic_id] # <<>> THEN cache
    ELSE [cache EXCEPT ![subtopic_id] =
            << [exposition_content |-> content, generated_at |-> utcnow,
                model_identifier |-> model_identifier] >>]

\* INSERT OR REPLACE: the row of subtopic_id becomes the new one
save_cached_exposition(cache, subtopic_id, content, model_identifier) ==
    [cache EXCEPT ![subtopic_id] =
        << [exposition_content |-> content, generated_at |-> utcnow,
            model_identifier |-> model_identifier] >>]

----------------------------------------------------------------------------
(* bloom/tutor_agent.py: utility and state nodes *)

\* str.upper(), character by character
upper_char(c) ==
    CASE c = "n" -> "N" [] c = "u" -> "U" [] c = "m" -> "M" [] c = "e" -> "E"
      [] c = "r" -> "R" [] c = "i" -> "I" [] c = "c" -> "C" [] c = "a" -> "A"
      [] c = "l" -> "L" [] c = "o" -> "O" [] OTHER -> c
upper(content) == [i \in DOMAIN chars(content) |-> upper_char(chars(content)[i])]

\* "NUMERICAL" in response.upper()
numerical_in_upper(response) == contains(upper(response), "NUMERICAL")

\* a variant of should_show_calculator that shows the calculator when the
\* classification fails
should_show_calculator_default_show(o) ==
    IF o.calc = GenFail THEN TRUE ELSE numerical_in_upper(o.calc)

should_show_calculator(o) ==
    IF o.calc = GenFail THEN FALSE ELSE numerical_in_upper(o.calc)

\* a variant of append_message that keeps only the newest message
append_message_replaces(state, role, content) ==
    [state EXCEPT !.messages = << Msg(role, content) >>]

append_message(state, role, content) ==
    [state EXCEPT !.messages = Append(@, Msg(role, content))]

\* a variant of exposition_node that generates the initial exposition whatever the cache holds
exposition_node_no_cache(state, cache, o) ==
    LET is_initial == ~ \E i \in DOMAIN state.messages : state.messages[i].role = "student"
    IN  IF is_initial
        THEN IF o.expo = GenFail
             THEN NodeResult(append_message(state, "tutor", ApologyExposition),
                             cache, << <<"expo", o.expo>> >>, FALSE)
             ELSE NodeResult(append_message(state, "tutor", o.expo),
                             save_cached_exposition(cache, state.subtopic_id, o.expo, LLM_MODEL),
                             << <<"expo", o.expo>> >>, FALSE)
        ELSE IF o.followup = GenFail
             THEN NodeResult(append_message(state, "tutor", ApologyFollowup),
                             cache, << <<"followup", o.followup>> >>, FALSE)
             ELSE NodeResult(append_message(state, "tutor", o.followup),
                             cache, << <<"followup", o.followup>> >>, FALSE)

\* a variant of exposition_node that does not store what it generates
exposition_node_no_save(state, cache, o) ==
    LET is_initial == ~ \E i \in DOMAIN state.messages : state.messages[i].role = "student"
        cached == get_cached_exposition(cache, state.subtopic_id)
    IN  IF is_initial
        THEN IF cached # <<>>
             THEN NodeResult(append_message(state, "tutor", cached[1].exposition_content),
                             cache, <<>>, FALSE)
             ELSE IF o.expo = GenFail
                  THEN NodeResult(append_message(state, "tutor", ApologyExposition),
                                  cache, << <<"expo", o.expo>> >>, FALSE)
                  ELSE NodeResult(append_message(state, "tutor", o.expo),
                                  cache, << <<"expo", o.expo>> >>, FALSE)
        ELSE IF o.followup = GenFail
             THEN NodeResult(append_message(state, "tutor", ApologyFollowup),
                             cache, << <<"followup", o.followup>> >>, FALSE)
             ELSE NodeResult(append_message(state, "tutor", o.followup),
                             cache, << <<"followup", o.followup>> >>, FALSE)

\* a variant of exposition_node that appends nothing when the generation fails
exposition_node_no_apology(state, cache, o) ==
    LET is_initial == ~ \E i \in DOMAIN state.messages : state.messages[i].role = "student"
        cached == get_cached_exposition(cache, state.subtopic_id)
    IN  IF is_initial
        THEN IF cached # <<>>
             THEN NodeResult(append_message(state, "tutor", cached[1].exposition_content),
                             cache, <<>>, FALSE)
             ELSE IF o.expo = GenFail
                  THEN NodeResult(state, cache, << <<"expo", o.expo>> >>, FALSE)
                  ELSE NodeResult(append_message(state, "tutor", o.expo),
                                  save_cached_exposition(cache, state.subtopic_id, o.expo, LLM_MODEL),
                                  << <<"expo", o.expo>> >>, FALSE)
        ELSE IF o.followup = GenFail
             THEN NodeResult(state, cache, << <<"followup", o.followup>> >>, FALSE)
             ELSE NodeResult(append_message(state, "tutor", o.followup),
                             cache, << <<"followup", o.followup>> >>, FALSE)

\* a variant of exposition_node that also stores its follow-up answers in the cache
exposition_node_caches_followup(state, cache, o) ==
    LET is_initial == ~ \E i \in DOMAIN state.messages : state.messages[i].role = "student"
        cached == get_cached_exposition(cache, state.subtopic_id)
    IN  IF is_initial
        THEN IF cached # <<>>
             THEN NodeResult(append_message(state, "tutor", cached[1].exposition_content),
                             cache, <<>>, FALSE)
             ELSE IF o.expo = GenFail
                  THEN NodeResult(append_message(state, "tutor", ApologyExposition),
                                  cache, << <<"expo", o.expo>> >>, FALSE)
                  ELSE NodeResult(append_message(state, "tutor", o.expo),
                                  save_cached_exposition(cache, state.subtopic_id, o.expo, LLM_MODEL),
                                  << <<"expo", o.expo>> >>, FALSE)
        ELSE IF o.followup = GenFail
             THEN NodeResult(append_message(state, "tutor", ApologyFollowup),
                             cache, << <<"followup", o.followup>> >>, FALSE)
             ELSE NodeResult(append_message(state, "tutor", o.followup),
                             save_cached_exposition(cache, state.subtopic_id, o.followup, LLM_MODEL),
                             << <<"followup", o.followup>> >>, FALSE)

exposition_node(state, cache, o) ==
    LET is_initial == ~ \E i \in DOMAIN state.messages : state.messages[i].role = "student"
        cached == get_cached_exposition(cache, state.subtopic_id)
    IN  IF is_initial
        THEN IF cached # <<>>
             THEN \* cache hit: no generation call
                  NodeResult(append_message(state, "tutor", cached[1].exposition_content),
                             cache, <<>>, FALSE)
             ELSE IF o.expo = GenFail
                  THEN NodeResult(append_message(state, "tutor", ApologyExposition),
                                  cache, << <<"expo", o.expo>> >>, FALSE)
                  ELSE NodeResult(append_message(state, "tutor", o.expo),
                                  save_cached_exposition(cache, state.subtopic_id, o.expo, LLM_MODEL),
                                  << <<"expo", o.expo>> >>, FALSE)
        ELSE IF o.followup = GenFail
             THEN NodeResult(append_message(state, "tutor", ApologyFollowup),
                             cache, << <<"followup", o.followup>> >>, FALSE)
             ELSE NodeResult(append_message(state, "tutor", o.followup),
                             cache, << <<"followup", o.followup>> >>, FALSE)

\* a variant of questioning_node that does not count the question it asks
questioning_node_no_count(state, cache, o) ==
    IF o.q = GenFail
    THEN NodeResult(append_message(state, "tutor", ApologyQuestioning),
                    cache, << <<"q", o.q>> >>, FALSE)
    ELSE NodeResult(
            [append_message(state, "tutor", o.q) EXCEPT
                !.last_question = o.q,
                !.calculator_visible = should_show_calculator(o),
                !.current_state = "questioning"],
            cache, << <<"q", o.q>>, <<"calc", o.calc>> >>, FALSE)

questioning_node(state, cache, o) ==
    IF o.q = GenFail
    THEN NodeResult(append_message(state, "tutor", ApologyQuestioning),
                    cache, << <<"q", o.q>> >>, FALSE)
    ELSE NodeResult(
            [append_message(state, "tutor", o.q) EXCEPT
                !.last_question = o.q,
                !.questions_attempted = @ + 1,
                !.calculator_visible = should_show_calculator(o),
                !.current_state = "questioning"],
            cache, << <<"q", o.q>>, <<"calc", o.calc>> >>, FALSE)

\* a variant of evaluation_node that does not count a correct answer
evaluation_node_no_count(state, cache, o) ==
    IF state.last_student_answer = None
    THEN NodeResult(state, cache, <<>>, TRUE)
    ELSE IF state.last_student_answer = ""
    THEN NodeResult(state, cache, <<>>, FALSE)
    ELSE IF o.eval \in {GenFail, NotJson}
    THEN NodeResult(append_message(state, "tutor", ApologyEvaluation),
                    cache, << <<"eval", o.eval>> >>, FALSE)
    ELSE LET s1 == [state EXCEPT !.last_evaluation = json_value(o.eval)]
             calls == << <<"eval", o.eval>> >>
         IN  IF ~ is_dict(o.eval)
             THEN NodeResult(append_message(s1, "tutor", ApologyEvaluation), cache, calls, FALSE)
             ELSE IF get_correct(o.eval)
             THEN IF ~ has_feedback(o.eval)
                  THEN NodeResult(append_message(s1, "tutor", ApologyEvaluation), cache, calls, FALSE)
                  ELSE NodeResult([append_message(s1, "tutor", Ack) EXCEPT
                                      !.current_state = "questioning"],
                                  cache, calls, FALSE)
             ELSE NodeResult([append_message(s1, "tutor", NotQuite) EXCEPT
                                 !.current_state = "diagnosis"],
                             cache, calls, FALSE)

evaluation_node(state, cache, o) ==
    IF state.last_student_answer = None
    THEN \* line 504: None[:50] raises TypeError before the try block
         NodeResult(state, cache, <<>>, TRUE)
    ELSE IF state.last_student_answer = ""
    THEN \* no answer to evaluate
         NodeResult(state, cache, <<>>, FALSE)
    ELSE IF o.eval \in {GenFail, NotJson}
    THEN NodeResult(append_message(state, "tutor", ApologyEvaluation),
                    cache, << <<"eval", o.eval>> >>, FALSE)
    ELSE LET s1 == [state EXCEPT !.last_evaluation = json_value(o.eval)]
             calls == << <<"eval", o.eval>> >>
         IN  IF ~ is_dict(o.eval)
             THEN \* evaluation.get raises AttributeError, caught by the node
                  NodeResult(append_message(s1, "tutor", ApologyEvaluation), cache, calls, FALSE)
             ELSE IF get_correct(o.eval)
             THEN LET s2 == [s1 EXCEPT !.questions_correct = @ + 1]
                  IN  IF ~ has_feedback(o.eval)
                      THEN \* evaluation['feedback'] raises KeyError, caught by the node
                           NodeResult(append_message(s2, "tutor", ApologyEvaluation),
                                      cache, calls, FALSE)
                      ELSE NodeResult([append_message(s2, "tutor", Ack) EXCEPT
                                          !.current_state = "questioning"],
                                      cache, calls, FALSE)
             ELSE NodeResult([append_message(s1, "tutor", NotQuite) EXCEPT
                                 !.current_state = "diagnosis"],
                             cache, calls, FALSE)

diagnosis_node(state, cache, o) ==
    NodeResult([state EXCEPT !.current_state = "socratic"], cache, <<>>, FALSE)

socratic_node(state, cache, o) ==
    IF o.soc = GenFail
    THEN NodeResult([append_message(state, "tutor", FallbackHint) EXCEPT
                        !.current_state = "socratic"],
                    cache, << <<"soc", o.soc>> >>, FALSE)
    ELSE NodeResult([append_message(state, "tutor", o.soc) EXCEPT
                        !.current_state = "socratic"],
                    cache, << <<"soc", o.soc>> >>, FALSE)

\* node_map[node_name](state)
node_map(node_name, state, cache, o) ==
    CASE node_name = "exposition" -> exposition_node(state, cache, o)
      [] node_name = "questioning" -> questioning_node(state, cache, o)
      [] node_name = "evaluation" -> evaluation_node(state, cache, o)
      [] node_name = "diagnosis" -> diagnosis_node(state, cache, o)
      [] node_name = "socratic" -> socratic_node(state, cache, o)

----------------------------------------------------------------------------
(* bloom/tutor_agent.py: routing functions.  A router returns a node name,   *)
(* "END", or "raise" when an exception escapes it.                           *)

Keywords == {"question", "practice", "try", "test", "quiz"}

\* a variant of route_from_exposition that compares without lower()
route_from_exposition_case_sensitive(state) ==
    IF /\ Len(state.messages) > 0
       /\ state.messages[Len(state.messages)].role = "student"
       /\ \E word \in Keywords :
             contains(chars(state.messages[Len(state.messages)].content), word)
    THEN "questioning"
    ELSE "END"

route_from_exposition(state) ==
    IF /\ Len(state.messages) > 0
       /\ state.messages[Len(state.messages)].role = "student"
       /\ \E word \in Keywords :
             contains(lower(state.messages[Len(state.messages)].content), word)
    THEN "questioning"
    ELSE "END"

\* a variant of route_from_questioning that asks another question
route_from_questioning_again(state) == "questioning"

route_from_questioning(state) == "END"

\* a variant of route_from_evaluation without the fallback
route_from_evaluation_no_fallback(state) ==
    IF truthy(state.last_evaluation) /\ ~ is_dict(state.last_evaluation)
    THEN "raise"
    ELSE IF get_correct(state.last_evaluation) THEN "questioning" ELSE "diagnosis"

route_from_evaluation(state) ==
    IF truthy(state.last_evaluation)
    THEN IF ~ is_dict(state.last_evaluation)
         THEN "raise"
         ELSE IF get_correct(state.last_evaluation) THEN "questioning" ELSE "diagnosis"
    ELSE "END"

route_from_diagnosis(state) == "socratic"

\* a variant of route_from_socratic that reads the clock
route_from_socratic_by_clock(state) == IF utcnow % 2 = 0 THEN "END" ELSE "questioning"

route_from_socratic(state) == "END"

\* route_map[node_name](state): the module's routers, or a substituted router
\* that returns a fixed node whatever the state
route(node_name, state) ==
    IF route_map[node_name] # "real"
    THEN route_map[node_name]
    ELSE CASE node_name = "exposition" -> route_from_exposition(state)
           [] node_name = "questioning" -> route_from_questioning(state)
           [] node_name = "evaluation" -> route_from_evaluation(state)
           [] node_name = "diagnosis" -> route_from_diagnosis(state)
           [] node_name = "socratic" -> route_from_socratic(state)

----------------------------------------------------------------------------
(* bloom/tutor_agent.py: checkpoints; bloom/models.py: sessions, messages,  *)
(* progress                                                                  *)

\* json.dumps / json.loads of a TutorState: every field is a str, int, bool,
\* None or a list/dict of those, which JSON carries unchanged
\* JSON values: what json.dumps writes for a Python value of each type
json_null == [json |-> "null"]
json_string(s) == [json |-> "string", text |-> s]
json_number(n) == [json |-> "number", digits |-> n]
json_bool(b) == [json |-> IF b THEN "true" ELSE "false"]
json_array(items) == [json |-> "array", items |-> items]
json_object(members) == [json |-> "object", members |-> members]

\* Optional[str] and Optional[dict] fields: None is written as null
json_optional(v) == IF v = None THEN json_null ELSE json_string(v)
python_optional(j) == IF j.json = "null" THEN None ELSE j.text

json_message(m) ==
    json_object([role |-> json_string(m.role), content |-> json_string(m.content)])
python_message(j) == [role |-> j.members.role.text, content |-> j.members.content.text]

\* json.dumps(state): the text stored in column state_data
json_dumps(state) ==
    json_object(
      [ subtopic_id |-> json_number(state.subtopic_id),
        subtopic_name |-> json_string(state.subtopic_name),
        current_state |-> json_string(state.current_state),
        messages |-> json_array([i \in DOMAIN state.messages |-> json_message(state.messages[i])]),
        questions_correct |-> json_number(state.questions_correct),
        questions_attempted |-> json_number(state.questions_attempted),
        calculator_visible |-> json_bool(state.calculator_visible),
        last_student_answer |-> json_optional(state.last_student_answer),
        calculator_history |-> json_array(state.calculator_history),
        last_question |-> json_optional(state.last_question),
        last_evaluation |-> json_optional(state.last_evaluation),
        hints_given |-> json_number(state.hints_given) ])

\* json.loads(row[0])
json_loads(blob) ==
    LET o == blob.members
    IN  [ subtopic_id |-> o.subtopic_id.digits,
          subtopic_name |-> o.subtopic_name.text,
          current_state |-> o.current_state.text,
          messages |-> [i \in DOMAIN o.messages.items |-> python_message(o.messages.items[i])],
          questions_correct |-> o.questions_correct.digits,
          questions_attempted |-> o.questions_attempted.digits,
          calculator_visible |-> (o.calculator_visible.json = "true"),
          last_student_answer |-> python_optional(o.last_student_answer),
          calculator_history |-> o.calculator_history.items,
          last_question |-> python_optional(o.last_question),
          last_evaluation |-> python_optional(o.last_evaluation),
          hints_given |-> o.hints_given.digits ]

\* a variant of save_agent_checkpoint with INSERT OR IGNORE
save_agent_checkpoint_keep_first(checkpoints, session_id, state) ==
    IF checkpoints[session_id] # <<>> THEN checkpoints
    ELSE [checkpoints EXCEPT ![session_id] = << json_dumps(state) >>]

\* INSERT OR REPLACE INTO agent_checkpoints
save_agent_checkpoint(checkpoints, session_id, state) ==
    [checkpoints EXCEPT ![session_id] = << json_dumps(state) >>]

load_agent_checkpoint(checkpoints, session_id) ==
    IF checkpoints[session_id] = <<>> THEN <<>>
    ELSE << json_loads(checkpoints[session_id][1]) >>

get_session(session_id) == sessions[session_id]

\* a variant of update_session whose UPDATE has no WHERE clause
update_session_all_rows(table, session_id, questions_attempted, questions_correct) ==
    [s \in DOMAIN table |->
        IF table[s] = <<>> THEN <<>>
        ELSE << [table[s][1] EXCEPT !.questions_attempted = questions_attempted,
                                    !.questions_correct = questions_correct] >>]

update_session(table, session_id, questions_attempted, questions_correct) ==
    IF table[session_id] = <<>> THEN table
    ELSE [table EXCEPT ![session_id] =
            << [@[1] EXCEPT !.questions_attempted = questions_attempted,
                            !.questions_correct = questions_correct] >>]

\* add_message for each message of msgs, in order
add_messages(table, session_id, msgs) ==
    [table EXCEPT ![session_id] = @ \o msgs]

update_progress(table, subtopic_id, is_correct) ==
    LET inc == IF is_correct THEN 1 ELSE 0
    IN  IF table[subtopic_id] = <<>>
        THEN [table EXCEPT ![subtopic_id] =
                << [questions_attempted |-> 1, questions_correct |-> inc,
                    is_complete |-> FALSE] >>]
        ELSE [table EXCEPT ![subtopic_id] =
                << [questions_attempted |-> @[1].questions_attempted + 1,
                    questions_correct |-> @[1].questions_correct + inc,
                    is_complete |-> (@[1].questions_correct + inc >= COMPLETION_THRESHOLD)] >>]

----------------------------------------------------------------------------
(* bloom/routes/student.py: the request handlers *)

initial_state(subtopic_id, subtopic_name) ==
    [ subtopic_id |-> subtopic_id,
      subtopic_name |-> subtopic_name,
      current_state |-> "exposition",
      messages |-> <<>>,
      questions_correct |-> 0,
      questions_attempted |-> 0,
      calculator_visible |-> FALSE,
      last_student_answer |-> None,
      calculator_history |-> <<>>,
      last_question |-> None,
      last_evaluation |-> None,
      hints_given |-> 0 ]

\* What a handler has run so far: the state, the cache table, the nodes executed,
\* the generation calls made, the loop counter, and whether an exception escaped.
Run(state, cache, executed, calls, iteration, raised) ==
    [state |-> state, cache |-> cache, executed |-> executed, calls |-> calls,
     iteration |-> iteration, raised |-> raised]

\* one node execution added to a run
after_node(run, node_name, r) ==
    Run(r.state, r.cache, Append(run.executed, node_name), run.calls \o r.calls,
        run.iteration, r.raised)

\* a variant of entry that runs Exposition before switching to Questioning
entry_reruns_exposition(state, cache, o) ==
    LET run0 == Run(state, cache, <<>>, <<>>, 0, FALSE)
    IN  IF state.current_state = "exposition"
        THEN LET next_node == route("exposition", state)
                 ran == after_node(run0, "exposition", exposition_node(state, cache, o))
             IN  IF next_node = "questioning"
                 THEN [run |-> [ran EXCEPT !.state.current_state = "questioning"],
                       current_state |-> "questioning"]
                 ELSE IF next_node = "END"
                 THEN [run |-> ran, current_state |-> "exposition"]
                 ELSE [run |-> run0, current_state |-> "exposition"]
        ELSE IF state.current_state = "questioning"
        THEN [run |-> [run0 EXCEPT !.state.current_state = "evaluation"],
              current_state |-> "evaluation"]
        ELSE [run |-> run0, current_state |-> state.current_state]

\* The part of post_chat_message before the loop: the entry node is chosen from
\* current_state.  Returns the run and the handler's local current_state.
entry(state, cache, o) ==
    LET run0 == Run(state, cache, <<>>, <<>>, 0, FALSE)
    IN  IF state.current_state = "exposition"
        THEN LET next_node == route("exposition", state)
             IN  IF next_node = "questioning"
                 THEN [run |-> [run0 EXCEPT !.state.current_state = "questioning"],
                       current_state |-> "questioning"]
                 ELSE IF next_node = "END"
                 THEN [run |-> after_node(run0, "exposition", exposition_node(state, cache, o)),
                       current_state |-> "exposition"]
                 ELSE [run |-> run0, current_state |-> "exposition"]
        ELSE IF state.current_state = "questioning"
        THEN [run |-> [run0 EXCEPT !.state.current_state = "evaluation"],
              current_state |-> "evaluation"]
        ELSE [run |-> run0, current_state |-> state.current_state]

\* a variant of the loop whose guard is iteration <= max_iterations
RECURSIVE turn_loop_off_by_one(_, _, _)
turn_loop_off_by_one(run, current_state, o) ==
    IF ~ (run.iteration <= max_iterations /\ current_state # "exposition")
    THEN run
    ELSE LET node_name == run.state.current_state
             ran == after_node(run, node_name, node_map(node_name, run.state, run.cache, o))
             next_node == route(node_name, ran.state)
         IN  IF ran.raised THEN ran
             ELSE IF next_node = "raise" THEN [ran EXCEPT !.raised = TRUE]
             ELSE IF next_node = "END" THEN ran
             ELSE turn_loop_off_by_one(
                     [ran EXCEPT !.state.current_state = next_node, !.iteration = @ + 1],
                     current_state, o)

\* The while loop of post_chat_message (lines 532-562)
RECURSIVE turn_loop(_, _, _)
turn_loop(run, current_state, o) ==
    IF ~ (run.iteration < max_iterations /\ current_state # "exposition")
    THEN run
    ELSE LET node_name == run.state.current_state
             ran == after_node(run, node_name, node_map(node_name, run.state, run.cache, o))
             next_node == route(node_name, ran.state)
         IN  IF ran.raised THEN ran
             ELSE IF next_node = "raise" THEN [ran EXCEPT !.raised = TRUE]
             ELSE IF next_node = "END" THEN ran
             ELSE turn_loop(
                     [ran EXCEPT !.state.current_state = next_node, !.iteration = @ + 1],
                     current_state, o)

\* a variant of run_nodes in which a retry follows the routers as a turn does
run_nodes_retry_routes(op, state, cache, o) ==
    LET run0 == Run(state, cache, <<>>, <<>>, 0, FALSE)
    IN  CASE op = "start" ->
                after_node(run0, "exposition", exposition_node(state, cache, o))
          [] op = "advance" ->
                LET e == entry(state, cache, o)
                IN  turn_loop(e.run, e.current_state, o)
          [] op = "retry" ->
                turn_loop(run0, state.current_state, o)

\* The nodes a handler runs on `state`: start_session runs Exposition once,
\* post_chat_message the entry step and the loop, retry_last_message the node
\* current_state names.
run_nodes(op, state, cache, o) ==
    LET run0 == Run(state, cache, <<>>, <<>>, 0, FALSE)
    IN  CASE op = "start" ->
                after_node(run0, "exposition", exposition_node(state, cache, o))
          [] op = "advance" ->
                LET e == entry(state, cache, o)
                IN  turn_loop(e.run, e.current_state, o)
          [] op = "retry" ->
                after_node(run0, state.current_state,
                           node_map(state.current_state, state, cache, o))

\* The behaviours of the generation service a request can observe: an outcome is
\* chosen for a kind of call only once the request, run with the outcomes chosen so
\* far, makes a call of that kind (the others stay at the default and are not read).
RECURSIVE oracles_for(_, _, _, _, _)
oracles_for(op, state, cache, o, chosen) ==
    LET calls == run_nodes(op, state, cache, o).calls
        open == {i \in DOMAIN calls : calls[i][1] \notin chosen}
    IN  IF open = {}
        THEN {o}
        ELSE LET first == CHOOSE i \in open : \A j \in open : i <= j
                 kind == calls[first][1]
             IN  UNION { oracles_for(op, state, cache, [o EXCEPT ![kind] = outcome],
                                     chosen \cup {kind}) : outcome \in Outcomes(kind) }

Oracles(op, state, cache) == oracles_for(op, state, cache, DefaultOracle, {})

tutor_messages(msgs) == SelectSeq(msgs, LAMBDA m : m.role = "tutor")

drop(seq, n) == SubSeq(seq, n + 1, Len(seq))

Last(op, sid, message, pre, run) ==
    [op |-> op, sid |-> sid, message |-> message, pre |-> pre,
     executed |-> run.executed, calls |-> run.calls, raised |-> run.raised,
     post |-> << run.state >>, cache |-> cached_expositions]

\* lines 455-464: the student message is appended and becomes last_student_answer
with_student_message(state, message) ==
    [append_message(state, "student", message) EXCEPT !.last_student_answer = message]

RealRouteMap == [n \in Nodes |-> "real"]

\* requests explored: fewer when the routers are substituted, where one request
\* runs the loop to its cap
OpsBound == IF route_map = RealRouteMap THEN MaxOps ELSE MaxPathOps

\* POST /session/start.  create_session inserts the sessions row under the next
\* AUTOINCREMENT id; the insert fails on the foreign key (and the request changes
\* nothing) when the syllabus has no such subtopic.
start_session(subtopic_id, subtopic_name) ==
    /\ ops < OpsBound
    /\ subtopic_id \in subtopics
    /\ \E session_id \in SessionIds :
        /\ session_id = sqlite_sequence + 1
        /\ sqlite_sequence' = session_id
        /\ \E o \in Oracles("start", initial_state(subtopic_id, subtopic_name), cached_expositions) :
            LET init == initial_state(subtopic_id, subtopic_name)
                run == run_nodes("start", init, cached_expositions, o)
                r == run
            IN  /\ sessions' = [sessions EXCEPT ![session_id] =
                        << [subtopic_id |-> subtopic_id, state |-> "active",
                            questions_attempted |-> 0, questions_correct |-> 0] >>]
                /\ cached_expositions' = r.cache
                /\ messages_db' = add_messages(messages_db, session_id, r.state.messages)
                /\ agent_checkpoints' = save_agent_checkpoint(agent_checkpoints, session_id, r.state)
                /\ last' = Last("start", session_id, None, << init >>, run)
    /\ ops' = ops + 1
    /\ UNCHANGED <<progress, route_map, store_log, subtopics, inflight>>
    /\ UNCHANGED gen_vars

\* POST /chat/message
post_chat_message(session_id, message) ==
    /\ ops < OpsBound
    /\ get_session(session_id) # <<>>
    /\ load_agent_checkpoint(agent_checkpoints, session_id) # <<>>
    /\ \E o \in Oracles("advance",
                        with_student_message(
                            load_agent_checkpoint(agent_checkpoints, session_id)[1], message),
                        cached_expositions) :
        LET session == get_session(session_id)[1]
            loaded == load_agent_checkpoint(agent_checkpoints, session_id)[1]
            existing_db_count == Len(messages_db[session_id])
            state0 == with_student_message(loaded, message)
            db1 == add_messages(messages_db, session_id, << Msg("student", message) >>)
            run == run_nodes("advance", state0, cached_expositions, o)
            state == run.state
            new_messages == drop(state.messages, existing_db_count)
        IN  /\ cached_expositions' = run.cache
            /\ last' = Last("advance", session_id, message, << loaded >>, run)
            /\ IF run.raised
               THEN \* the handler's except clause: nothing after the student message is stored
                    /\ messages_db' = db1
                    /\ UNCHANGED <<sessions, progress, agent_checkpoints>>
               ELSE /\ sessions' = update_session(sessions, session_id,
                                        state.questions_attempted, state.questions_correct)
                    /\ progress' =
                          IF state.questions_attempted > session.questions_attempted
                          THEN update_progress(progress, session.subtopic_id,
                                   state.questions_correct > session.questions_correct)
                          ELSE progress
                    /\ messages_db' = add_messages(db1, session_id, tutor_messages(new_messages))
                    /\ agent_checkpoints' = save_agent_checkpoint(agent_checkpoints, session_id, state)
    /\ ops' = ops + 1
    /\ UNCHANGED <<route_map, store_log>>
    /\ UNCHANGED gen_vars
    /\ UNCHANGED <<subtopics, sqlite_sequence, inflight>>

\* POST /chat/retry
retry_last_message(session_id) ==
    /\ ops < OpsBound
    /\ load_agent_checkpoint(agent_checkpoints, session_id) # <<>>
    /\ \E o \in Oracles("retry", load_agent_checkpoint(agent_checkpoints, session_id)[1],
                        cached_expositions) :
        LET loaded == load_agent_checkpoint(agent_checkpoints, session_id)[1]
            run == run_nodes("retry", loaded, cached_expositions, o)
            r == run
            existing_count == Len(messages_db[session_id])
            new_messages == drop(r.state.messages, existing_count)
        IN  /\ cached_expositions' = r.cache
            /\ last' = Last("retry", session_id, None, << loaded >>, run)
            /\ IF r.raised
               THEN UNCHANGED <<messages_db, agent_checkpoints>>
               ELSE /\ messages_db' = add_messages(messages_db, session_id, new_messages)
                    /\ agent_checkpoints' = save_agent_checkpoint(agent_checkpoints, session_id, r.state)
    /\ ops' = ops + 1
    /\ UNCHANGED <<sessions, progress, route_map, store_log>>
    /\ UNCHANGED gen_vars
    /\ UNCHANGED <<subtopics, sqlite_sequence, inflight>>

----------------------------------------------------------------------------
(* Specification of the request handlers *)


NoLast ==
    [op |-> "none", sid |-> 0, message |-> None, pre |-> <<>>,
     executed |-> <<>>, calls |-> <<>>, raised |-> FALSE, post |-> <<>>,
     cache |-> <<>>]

LLM_PROVIDER == "openai"

GenIdle ==
    /\ g_pc = "idle"
    /\ g_prompt = None
    /\ g_attempt = 0
    /\ g_log = <<>>
    /\ g_sleeps = <<>>
    /\ g_result = <<>>

InitTables ==
    /\ agent_checkpoints = [s \in SessionIds |-> <<>>]
    /\ sessions = [s \in SessionIds |-> <<>>]
    /\ messages_db = [s \in SessionIds |-> <<>>]
    /\ cached_expositions = [t \in SubtopicIds |-> <<>>]
    /\ progress = [t \in SubtopicIds |-> <<>>]
    /\ ops = 0
    /\ last = NoLast
    /\ store_log = <<>>
    /\ subtopics = SubtopicIds
    /\ sqlite_sequence = 0
    /\ inflight = [slot \in Slots |-> <<>>]

Init ==
    /\ InitTables
    /\ route_map = RealRouteMap
    /\ g_provider = LLM_PROVIDER
    /\ g_genai = TRUE
    /\ GenIdle

Start == \E subtopic_id \in SubtopicIds : start_session(subtopic_id, subtopic_name_of(subtopic_id))

Advance == \E session_id \in SessionIds, message \in StudentInputs :
                post_chat_message(session_id, message)

Retry == \E session_id \in SessionIds : retry_last_message(session_id)

Next == Start \/ Advance \/ Retry

Spec == Init /\ [][Next]_vars

----------------------------------------------------------------------------
(* Specification with substituted routers that never return END: every      *)
(* router returns "questioning", every router returns "exposition", or the   *)
(* routers send Questioning to Socratic or to Evaluation and back.           *)

AlwaysQuestioning == [n \in Nodes |-> "questioning"]

AlwaysExposition == [n \in Nodes |-> "exposition"]

QuestioningSocraticCycle ==
    [n \in Nodes |->
        CASE n = "exposition" -> "questioning"
          [] n = "questioning" -> "socratic"
          [] n = "evaluation" -> "questioning"
          [] n = "diagnosis" -> "socratic"
          [] n = "socratic" -> "questioning"]

QuestioningEvaluationCycle ==
    [n \in Nodes |->
        CASE n = "exposition" -> "questioning"
          [] n = "questioning" -> "evaluation"
          [] n = "evaluation" -> "questioning"
          [] n = "diagnosis" -> "socratic"
          [] n = "socratic" -> "questioning"]

PathRouteMaps == {AlwaysQuestioning, AlwaysExposition, QuestioningSocraticCycle,
                  QuestioningEvaluationCycle}

InitPath ==
    /\ InitTables
    /\ route_map \in PathRouteMaps
    /\ g_provider = LLM_PROVIDER
    /\ g_genai = TRUE
    /\ GenIdle

SpecPath == InitPath /\ [][Next]_vars

----------------------------------------------------------------------------
(* bloom/tutor_agent.py: LLMClient.generate, one step per provider attempt   *)
(* and per sleep                                                             *)

\* the providers _get_client knows, and one value of LLM_PROVIDER it does not
KnownProviders == {"openai", "anthropic", "google", "xai"}
Providers == KnownProviders \cup {"mistral"}
Prompts == {"prompt 1", "prompt 2"}
Responses == {"response 1", "response 2"}
ProviderErrors == {"error 1", "error 2"}

\* RuntimeError(f"LLM API failed after {max_retries} attempts: {str(e)}") from e
RuntimeErrorFrom(e) == [type |-> "RuntimeError", cause |-> e]

\* LLMClient._get_client: the client, or the exception it raises.  The google
\* client needs the google.generativeai package to be importable.
get_client(provider, genai_installed) ==
    CASE provider \in {"openai", "anthropic", "xai"} -> "client"
      [] provider = "google" -> IF genai_installed THEN "client" ELSE "ImportError"
      [] OTHER -> "ValueError"

\* a call of generate(prompt): the client is fetched, then the loop is entered
GenCall(prompt) ==
    /\ g_pc \in {"idle", "done"}
    /\ g_prompt' = prompt
    /\ g_attempt' = 0
    /\ g_log' = <<>>
    /\ g_sleeps' = <<>>
    /\ IF get_client(g_provider, g_genai) = "client"
       THEN g_pc' = "attempt" /\ g_result' = <<>>
       ELSE /\ g_pc' = "done"
            /\ g_result' = << "raise", [type |-> get_client(g_provider, g_genai),
                                        cause |-> None] >>
    /\ UNCHANGED <<g_provider, g_genai>>
    /\ UNCHANGED agent_vars

\* a variant of the loop body that returns a response only on the last attempt
gen_attempt_never_stops(outcome) ==
    /\ g_pc = "attempt"
    /\ g_attempt < max_retries
    /\ g_log' = Append(g_log, [provider |-> g_provider, prompt |-> g_prompt,
                               outcome |-> outcome])
    /\ IF outcome \in Responses /\ g_attempt = max_retries - 1
       THEN g_pc' = "done" /\ g_result' = << "return", outcome >>
       ELSE IF g_attempt = max_retries - 1
       THEN g_pc' = "done" /\ g_result' = << "raise", RuntimeErrorFrom(outcome) >>
       ELSE g_pc' = "sleep" /\ g_result' = g_result
    /\ UNCHANGED <<g_provider, g_genai, g_prompt, g_attempt, g_sleeps>>
    /\ UNCHANGED agent_vars

\* one iteration of `for attempt in range(max_retries)`: the provider call, and the
\* except clause when it fails
gen_attempt(outcome) ==
    /\ g_pc = "attempt"
    /\ g_attempt < max_retries
    /\ g_log' = Append(g_log, [provider |-> g_provider, prompt |-> g_prompt,
                               outcome |-> outcome])
    /\ IF outcome \in Responses
       THEN g_pc' = "done" /\ g_result' = << "return", outcome >>
       ELSE IF g_attempt = max_retries - 1
       THEN g_pc' = "done" /\ g_result' = << "raise", RuntimeErrorFrom(outcome) >>
       ELSE g_pc' = "sleep" /\ g_result' = g_result
    /\ UNCHANGED <<g_provider, g_genai, g_prompt, g_attempt, g_sleeps>>
    /\ UNCHANGED agent_vars

\* a variant of the sleep that waits one second whatever the attempt
gen_sleep_fixed_delay ==
    /\ g_pc = "sleep"
    /\ g_sleeps' = Append(g_sleeps, 1)
    /\ g_attempt' = g_attempt + 1
    /\ g_pc' = "attempt"
    /\ UNCHANGED <<g_provider, g_genai, g_prompt, g_log, g_result>>
    /\ UNCHANGED agent_vars

\* await asyncio.sleep(2**attempt), then the next iteration
GenSleep ==
    /\ g_pc = "sleep"
    /\ g_sleeps' = Append(g_sleeps, 2 ^ g_attempt)
    /\ g_attempt' = g_attempt + 1
    /\ g_pc' = "attempt"
    /\ UNCHANGED <<g_provider, g_genai, g_prompt, g_log, g_result>>
    /\ UNCHANGED agent_vars

Generate == \E prompt \in Prompts : GenCall(prompt)

GenAttempt == \E outcome \in Responses \cup ProviderErrors : gen_attempt(outcome)

InitGen ==
    /\ InitTables
    /\ route_map = RealRouteMap
    /\ g_provider \in Providers
    /\ g_genai \in BOOLEAN
    /\ GenIdle

NextGen == Generate \/ GenAttempt \/ GenSleep

SpecGen == InitGen /\ [][NextGen]_vars

----------------------------------------------------------------------------
(* The checkpoint table and the exposition cache called directly, as the     *)
(* handlers and the tests of src/tests/test_cache_exposition.py call them    *)

MaxStoreOps == 3

\* two subtopics of the loaded syllabus
StoreSubtopicIds == {101, 102}
StoreContents == {"E1", "E2"}
StoreModels == {LLM_MODEL, "claude-3-5-sonnet-20241022"}

\* states a handler may save: after start, after a student message, after a question
StoreStates ==
    LET s0 == append_message(initial_state(101, subtopic_name_of(101)), "tutor", "E1")
        s1 == with_student_message(s0, "give me a question")
        s2 == [append_message(s1, "tutor", "Q1") EXCEPT
                    !.current_state = "questioning", !.last_question = "Q1",
                    !.questions_attempted = 1, !.calculator_visible = TRUE,
                    !.last_evaluation = "{correct:true,feedback}"]
    IN  {s0, s1, s2}

StoreRequest(op, key, before, result) ==
    [op |-> op, sid |-> key, cache |-> before, result |-> result]

\* save_agent_checkpoint(session_id, state)
SaveCheckpoint(session_id, state) ==
    /\ ops < MaxStoreOps
    /\ ops' = ops + 1
    /\ agent_checkpoints' = save_agent_checkpoint(agent_checkpoints, session_id, state)
    /\ store_log' = Append(store_log, [op |-> "save", key |-> session_id, state |-> state])
    /\ last' = StoreRequest("save", session_id, agent_checkpoints, <<>>)
    /\ UNCHANGED <<sessions, messages_db, cached_expositions, progress, route_map>>
    /\ UNCHANGED gen_vars
    /\ UNCHANGED <<subtopics, sqlite_sequence, inflight>>

\* load_agent_checkpoint(session_id)
LoadCheckpoint(session_id) ==
    /\ ops < MaxStoreOps
    /\ ops' = ops + 1
    /\ last' = StoreRequest("load", session_id, agent_checkpoints,
                            load_agent_checkpoint(agent_checkpoints, session_id))
    /\ UNCHANGED <<agent_checkpoints, sessions, messages_db, cached_expositions, progress,
                   route_map, store_log>>
    /\ UNCHANGED gen_vars
    /\ UNCHANGED <<subtopics, sqlite_sequence, inflight>>

\* save_cached_exposition(subtopic_id, content, model_identifier)
PutExposition(subtopic_id, content, model_identifier) ==
    /\ ops < MaxStoreOps
    /\ ops' = ops + 1
    /\ cached_expositions' =
            save_cached_exposition(cached_expositions, subtopic_id, content, model_identifier)
    /\ store_log' = Append(store_log, [op |-> "put", key |-> subtopic_id, content |-> content,
                                       model_identifier |-> model_identifier, at |-> utcnow])
    /\ last' = StoreRequest("put", subtopic_id, cached_expositions, <<>>)
    /\ UNCHANGED <<agent_checkpoints, sessions, messages_db, progress, route_map>>
    /\ UNCHANGED gen_vars
    /\ UNCHANGED <<subtopics, sqlite_sequence, inflight>>

\* get_cached_exposition(subtopic_id): a SELECT
GetExposition(subtopic_id) ==
    /\ ops < MaxStoreOps
    /\ ops' = ops + 1
    /\ last' = StoreRequest("get", subtopic_id, cached_expositions,
                            get_cached_exposition(cached_expositions, subtopic_id))
    /\ UNCHANGED <<agent_checkpoints, sessions, messages_db, cached_expositions, progress,
                   route_map, store_log>>
    /\ UNCHANGED gen_vars
    /\ UNCHANGED <<subtopics, sqlite_sequence, inflight>>

Save == \E session_id \in SessionIds, state \in StoreStates : SaveCheckpoint(session_id, state)

Load == \E session_id \in SessionIds : LoadCheckpoint(session_id)

Put == \E subtopic_id \in StoreSubtopicIds, content \in StoreContents,
          model_identifier \in StoreModels :
            PutExposition(subtopic_id, content, model_identifier)

Get == \E subtopic_id \in StoreSubtopicIds : GetExposition(subtopic_id)

InitStore ==
    /\ agent_checkpoints = [s \in SessionIds |-> <<>>]
    /\ sessions = [s \in SessionIds |-> <<>>]
    /\ messages_db = [s \in SessionIds |-> <<>>]
    /\ cached_expositions = [t \in StoreSubtopicIds |-> <<>>]
    /\ progress = [t \in StoreSubtopicIds |-> <<>>]
    /\ ops = 0
    /\ last = NoLast
    /\ store_log = <<>>
    /\ subtopics = StoreSubtopicIds
    /\ sqlite_sequence = 0
    /\ inflight = [slot \in Slots |-> <<>>]
    /\ route_map = RealRouteMap
    /\ g_provider = LLM_PROVIDER
    /\ g_genai = TRUE
    /\ GenIdle

NextStore == Save \/ Load \/ Put \/ Get

SpecStore == InitStore /\ [][NextStore]_vars

----------------------------------------------------------------------------
(* bloom/tutor_agent.py: the routing functions applied to given states *)

MaxRouterOps == 2

\* what the last message of a state may say
RouterContents == {"give me a question", "42", "QUIZ", "poetry", "Test me", "no"}

RouterMessages ==
    {<<>>, << Msg("tutor", "E1") >>, << Msg("student", "QUIZ"), Msg("tutor", "F1") >>}
    \cup {<< Msg("tutor", "E1"), Msg("student", content) >> : content \in RouterContents}

\* the values evaluation_node may leave in last_evaluation
RouterEvaluations == {None} \cup {json_value(text) : text \in JsonValues}

RouterStates ==
    {[initial_state(101, subtopic_name_of(101)) EXCEPT
            !.messages = messages, !.last_evaluation = evaluation] :
        messages \in RouterMessages, evaluation \in RouterEvaluations}

\* route_map[node_name](state): the router returns a node name and writes nothing
ApplyRouter(node_name, state) ==
    /\ ops < MaxRouterOps
    /\ ops' = ops + 1
    /\ last' = [op |-> "route", node |-> node_name, pre |-> << state >>,
                result |-> route(node_name, state), post |-> << state >>,
                before |-> IF last.op = "route"
                           THEN << [node |-> last.node, pre |-> last.pre,
                                    result |-> last.result] >>
                           ELSE <<>>]
    /\ UNCHANGED <<agent_checkpoints, sessions, messages_db, cached_expositions, progress,
                   route_map, store_log>>
    /\ UNCHANGED gen_vars
    /\ UNCHANGED <<subtopics, sqlite_sequence, inflight>>

NextRouter == \E node_name \in Nodes, state \in RouterStates : ApplyRouter(node_name, state)

SpecRouter == Init /\ [][NextRouter]_vars

----------------------------------------------------------------------------
(* bloom/routes/admin.py and bloom/database.py: syllabus upload and progress  *)
(* reset, with the ON DELETE CASCADE clauses of the schema (connections of    *)
(* get_connection enforce foreign keys)                                       *)

\* the syllabi uploaded: the subtopic ids they hold (at least one)
Syllabi == {{101}, {102}}

\* ON DELETE CASCADE: the rows of a child table whose parent key was deleted go
on_delete_cascade(table, deleted) ==
    [k \in DOMAIN table |-> IF k \in deleted THEN <<>> ELSE table[k]]

\* the sessions rows that reference one of the subtopics
sessions_of(deleted_subtopics) ==
    {s \in SessionIds : /\ sessions[s] # <<>>
                        /\ sessions[s][1].subtopic_id \in deleted_subtopics}

\* what the last administrative request was given
AdminLast(op) ==
    [op |-> op, sid |-> 0, message |-> None, pre |-> <<>>,
     executed |-> <<>>, calls |-> <<>>, raised |-> FALSE, post |-> <<>>,
     cache |-> cached_expositions, progress |-> progress]

\* DELETE FROM topics, then the topics and subtopics of the syllabus are inserted.
\* The delete cascades to every subtopic, and from the subtopics to their
\* sessions (and from these to messages and checkpoints), progress rows and
\* cached expositions.
load_syllabus_from_json(syllabus) ==
    /\ ops < OpsBound
    /\ LET deleted_subtopics == subtopics
           deleted_sessions == sessions_of(deleted_subtopics)
       IN  /\ sessions' = on_delete_cascade(sessions, deleted_sessions)
           /\ messages_db' = on_delete_cascade(messages_db, deleted_sessions)
           /\ agent_checkpoints' = on_delete_cascade(agent_checkpoints, deleted_sessions)
           /\ progress' = on_delete_cascade(progress, deleted_subtopics)
           /\ cached_expositions' = on_delete_cascade(cached_expositions, deleted_subtopics)
    /\ subtopics' = syllabus
    /\ last' = AdminLast("upload_syllabus")
    /\ ops' = ops + 1
    /\ UNCHANGED <<route_map, store_log, sqlite_sequence, inflight>>
    /\ UNCHANGED gen_vars

\* POST /admin/syllabus/upload: the validated syllabus is loaded
upload_syllabus(syllabus) == load_syllabus_from_json(syllabus)

\* POST /admin/progress/reset: DELETE FROM progress, DELETE FROM sessions (which
\* cascades to messages and checkpoints)
reset_progress ==
    /\ ops < OpsBound
    /\ LET deleted_sessions == {s \in SessionIds : sessions[s] # <<>>}
       IN  /\ progress' = [t \in DOMAIN progress |-> <<>>]
           /\ sessions' = on_delete_cascade(sessions, deleted_sessions)
           /\ messages_db' = on_delete_cascade(messages_db, deleted_sessions)
           /\ agent_checkpoints' = on_delete_cascade(agent_checkpoints, deleted_sessions)
    /\ last' = AdminLast("reset_progress")
    /\ ops' = ops + 1
    /\ UNCHANGED <<cached_expositions, subtopics, route_map, store_log, sqlite_sequence,
                   inflight>>
    /\ UNCHANGED gen_vars

Upload == \E syllabus \in Syllabi : upload_syllabus(syllabus)

Reset == reset_progress

NextAdmin == Start \/ Advance \/ Retry \/ Upload \/ Reset

SpecAdmin == Init /\ [][NextAdmin]_vars

----------------------------------------------------------------------------
(* bloom/routes/student.py: the handlers as coroutines.  A handler runs up to *)
(* its first await (the first generation call of a node) and is resumed      *)
(* later; other requests are handled in between.  No handler takes a lock.   *)
(* A request whose node awaits nothing (Diagnosis) is split in the same way,  *)
(* which allows more interleavings than the event loop does.                  *)

\* a request suspended at its first await: what it read before it
Request(op, sid, message, pre, state, session, existing_db_count) ==
    [op |-> op, sid |-> sid, message |-> message, pre |-> pre, state |-> state,
     session |-> session, existing_db_count |-> existing_db_count,
     cache |-> cached_expositions]

free_slot == CHOOSE slot \in Slots : /\ inflight[slot] = <<>>
                                     /\ \A other \in Slots : other < slot => inflight[other] # <<>>

\* the initial expositions the generation service has returned so far, per subtopic
ExpoGenerated ==
    IF "expo_generated" \in DOMAIN last THEN last.expo_generated
    ELSE [t \in SubtopicIds |-> 0]

\* the request received and suspended by the last step
Began(sid) ==
    [expo_generated |-> ExpoGenerated] @@ [NoLast EXCEPT !.op = "begin", !.sid = sid]

\* the request completed by the last step, with the checkpoint row its save replaced
Finished(req, run) ==
    [overwritten |-> agent_checkpoints[req.sid],
     expo_generated |->
        [ExpoGenerated EXCEPT ![req.state.subtopic_id] =
            @ + Cardinality({i \in DOMAIN run.calls : /\ run.calls[i][1] = "expo"
                                                      /\ run.calls[i][2] # GenFail})]]
        @@ Last(req.op, req.sid, req.message, req.pre, run)

\* save_cached_exposition as the resumed node calls it: the lookup was made before
\* the await, the row is written to the table as it is now
cache_written(req, run) ==
    IF run.cache = req.cache THEN cached_expositions
    ELSE [cached_expositions EXCEPT ![req.state.subtopic_id] = run.cache[req.state.subtopic_id]]

\* start_session up to the generation call of exposition_node (lines 187-214)
begin_start_session(subtopic_id, subtopic_name) ==
    /\ ops < MaxConcOps
    /\ subtopic_id \in subtopics
    /\ \E slot \in Slots : inflight[slot] = <<>>
    /\ \E session_id \in SessionIds :
        /\ session_id = sqlite_sequence + 1
        /\ sqlite_sequence' = session_id
        /\ sessions' = [sessions EXCEPT ![session_id] =
                << [subtopic_id |-> subtopic_id, state |-> "active",
                    questions_attempted |-> 0, questions_correct |-> 0] >>]
        /\ inflight' = [inflight EXCEPT ![free_slot] =
                << Request("start", session_id, None,
                           << initial_state(subtopic_id, subtopic_name) >>,
                           initial_state(subtopic_id, subtopic_name), <<>>, 0) >>]
        /\ last' = Began(session_id)
    /\ ops' = ops + 1
    /\ UNCHANGED <<agent_checkpoints, messages_db, cached_expositions, progress,
                   route_map, store_log, subtopics>>
    /\ UNCHANGED gen_vars

\* start_session from the generation call on (lines 214-249)
finish_start_session(slot) ==
    /\ inflight[slot] # <<>>
    /\ inflight[slot][1].op = "start"
    /\ LET req == inflight[slot][1]
       IN  \E o \in Oracles("start", req.state, req.cache) :
            LET run == run_nodes("start", req.state, req.cache, o)
            IN  /\ cached_expositions' = cache_written(req, run)
                /\ messages_db' = add_messages(messages_db, req.sid, run.state.messages)
                /\ agent_checkpoints' = save_agent_checkpoint(agent_checkpoints, req.sid, run.state)
                /\ last' = Finished(req, run)
    /\ inflight' = [inflight EXCEPT ![slot] = <<>>]
    /\ UNCHANGED <<sessions, progress, route_map, ops, store_log, subtopics, sqlite_sequence>>
    /\ UNCHANGED gen_vars

\* post_chat_message up to the first generation call (lines 441-543): the session
\* and the checkpoint are read and the student message is logged
begin_post_chat_message(session_id, message) ==
    /\ ops < MaxConcOps
    /\ get_session(session_id) # <<>>
    /\ load_agent_checkpoint(agent_checkpoints, session_id) # <<>>
    /\ \E slot \in Slots : inflight[slot] = <<>>
    /\ LET loaded == load_agent_checkpoint(agent_checkpoints, session_id)[1]
       IN  /\ inflight' = [inflight EXCEPT ![free_slot] =
                  << Request("advance", session_id, message, << loaded >>,
                             with_student_message(loaded, message),
                             get_session(session_id), Len(messages_db[session_id])) >>]
           /\ messages_db' = add_messages(messages_db, session_id, << Msg("student", message) >>)
    /\ last' = Began(session_id)
    /\ ops' = ops + 1
    /\ UNCHANGED <<agent_checkpoints, sessions, cached_expositions, progress,
                   route_map, store_log, subtopics, sqlite_sequence>>
    /\ UNCHANGED gen_vars

\* post_chat_message from the first generation call on (lines 543-641)
finish_post_chat_message(slot) ==
    /\ inflight[slot] # <<>>
    /\ inflight[slot][1].op = "advance"
    /\ LET req == inflight[slot][1]
           session == req.session[1]
       IN  \E o \in Oracles("advance", req.state, req.cache) :
            LET run == run_nodes("advance", req.state, req.cache, o)
                state == run.state
                new_messages == drop(state.messages, req.existing_db_count)
            IN  /\ cached_expositions' = cache_written(req, run)
                /\ last' = Finished(req, run)
                /\ IF run.raised
                   THEN UNCHANGED <<sessions, progress, messages_db, agent_checkpoints>>
                   ELSE /\ sessions' = update_session(sessions, req.sid,
                                            state.questions_attempted, state.questions_correct)
                        /\ progress' =
                              IF state.questions_attempted > session.questions_attempted
                              THEN update_progress(progress, session.subtopic_id,
                                       state.questions_correct > session.questions_correct)
                              ELSE progress
                        /\ messages_db' = add_messages(messages_db, req.sid,
                                                       tutor_messages(new_messages))
                        /\ agent_checkpoints' =
                              save_agent_checkpoint(agent_checkpoints, req.sid, state)
    /\ inflight' = [inflight EXCEPT ![slot] = <<>>]
    /\ UNCHANGED <<route_map, ops, store_log, subtopics, sqlite_sequence>>
    /\ UNCHANGED gen_vars

\* retry_last_message up to the generation call of the node (lines 725-748)
begin_retry_last_message(session_id) ==
    /\ ops < MaxConcOps
    /\ load_agent_checkpoint(agent_checkpoints, session_id) # <<>>
    /\ \E slot \in Slots : inflight[slot] = <<>>
    /\ LET loaded == load_agent_checkpoint(agent_checkpoints, session_id)[1]
       IN  inflight' = [inflight EXCEPT ![free_slot] =
                << Request("retry", session_id, None, << loaded >>, loaded, <<>>, 0) >>]
    /\ last' = Began(session_id)
    /\ ops' = ops + 1
    /\ UNCHANGED <<agent_checkpoints, sessions, messages_db, cached_expositions, progress,
                   route_map, store_log, subtopics, sqlite_sequence>>
    /\ UNCHANGED gen_vars

\* retry_last_message from the generation call on (lines 740-786): the log is
\* counted after the node has run
finish_retry_last_message(slot) ==
    /\ inflight[slot] # <<>>
    /\ inflight[slot][1].op = "retry"
    /\ LET req == inflight[slot][1]
       IN  \E o \in Oracles("retry", req.state, req.cache) :
            LET run == run_nodes("retry", req.state, req.cache, o)
                existing_count == Len(messages_db[req.sid])
                new_messages == drop(run.state.messages, existing_count)
            IN  /\ cached_expositions' = cache_written(req, run)
                /\ last' = Finished(req, run)
                /\ IF run.raised
                   THEN UNCHANGED <<messages_db, agent_checkpoints>>
                   ELSE /\ messages_db' = add_messages(messages_db, req.sid, new_messages)
                        /\ agent_checkpoints' =
                              save_agent_checkpoint(agent_checkpoints, req.sid, run.state)
    /\ inflight' = [inflight EXCEPT ![slot] = <<>>]
    /\ UNCHANGED <<sessions, progress, route_map, ops, store_log, subtopics, sqlite_sequence>>
    /\ UNCHANGED gen_vars

BeginStart ==
    \E subtopic_id \in SubtopicIds :
        begin_start_session(subtopic_id, subtopic_name_of(subtopic_id))

FinishStart == \E slot \in Slots : finish_start_session(slot)

BeginAdvance ==
    \E session_id \in SessionIds, message \in StudentInputs :
        begin_post_chat_message(session_id, message)

FinishAdvance == \E slot \in Slots : finish_post_chat_message(slot)

BeginRetry == \E session_id \in SessionIds : begin_retry_last_message(session_id)

FinishRetry == \E slot \in Slots : finish_retry_last_message(slot)

NextConc ==
    BeginStart \/ FinishStart \/ BeginAdvance \/ FinishAdvance \/ BeginRetry \/ FinishRetry

SpecConc == Init /\ [][NextConc]_vars

----------------------------------------------------------------------------
(* bloom/tutor_agent.py: the state nodes applied to given states *)

MaxNodeOps == 2

\* what last_student_answer may hold: nothing yet (None), an empty text, an answer
NodeAnswers == {None, "", "42"}

NodeStates ==
    {[initial_state(101, subtopic_name_of(101)) EXCEPT
            !.current_state = current_state,
            !.messages = messages,
            !.last_student_answer = answer,
            !.last_question = question] :
        current_state \in {"exposition", "questioning", "evaluation"},
        messages \in {<<>>, << Msg("tutor", "E1"), Msg("tutor", "Q1") >>},
        answer \in NodeAnswers,
        question \in {None, "Q1"}}

\* the behaviours of the generation service the node can observe on the state
NodeOracles(node_name, state) ==
    Oracles("retry", [state EXCEPT !.current_state = node_name], cached_expositions)

\* node_map[node_name](state)
ApplyNode(node_name, state) ==
    /\ ops < MaxNodeOps
    /\ ops' = ops + 1
    /\ \E o \in NodeOracles(node_name, state) :
        LET r == node_map(node_name, state, cached_expositions, o)
        IN  /\ last' = [op |-> "node", node |-> node_name, pre |-> << state >>,
                        post |-> << r.state >>, calls |-> r.calls, raised |-> r.raised]
            /\ cached_expositions' = r.cache
    /\ UNCHANGED <<agent_checkpoints, sessions, messages_db, progress, route_map, store_log>>
    /\ UNCHANGED gen_vars
    /\ UNCHANGED <<subtopics, sqlite_sequence, inflight>>

NextNode == \E node_name \in Nodes, state \in NodeStates : ApplyNode(node_name, state)

SpecNode == Init /\ [][NextNode]_vars

----------------------------------------------------------------------------
(* Properties *)

checkpoint(session_id) == json_loads(agent_checkpoints[session_id][1])

\* the last request was a completed post_chat_message
Advanced == last.op = "advance" /\ ~ last.raised

\* the state the last request loaded, and the state it ended with
Pre == last.pre[1]
Post == last.post[1]

\* the tutor messages the last post_chat_message appended after the student's
Appended == drop(Post.messages, Len(Pre.messages) + 1)

Called(kind, outcome) == \E i \in DOMAIN last.calls : last.calls[i] = <<kind, outcome>>

\* messages a node appends when it contains a failure
Contained == Apologies \cup {FallbackHint}

\* C1: in every checkpointed TutorState, questions_correct <= questions_attempted.
C1_CorrectNotExceedAttempted ==
    \A session_id \in SessionIds :
        agent_checkpoints[session_id] # <<>> =>
            checkpoint(session_id).questions_correct
                <= checkpoint(session_id).questions_attempted

\* C2: a student message received while the checkpointed current_state is socratic
\* is routed to Evaluation: Evaluation is the first node executed in that turn and
\* the answer is graded.
C2_SocraticMessageIsEvaluated ==
    (last.op = "advance" /\ Pre.current_state = "socratic") =>
        /\ ~ last.raised
        /\ Len(last.executed) >= 1
        /\ last.executed[1] = "evaluation"
        /\ \E i \in DOMAIN last.calls : last.calls[i][1] = "eval"

\* C3: a turn in which a node's generation call fails appends exactly one apologetic
\* tutor message and leaves current_state, questions_attempted and questions_correct
\* as they were before the turn.
C3_FailedGenerationLeavesStateUnchanged ==
    (/\ Advanced
     /\ \E i \in DOMAIN last.calls :
            last.calls[i][1] # "calc" /\ last.calls[i][2] = GenFail) =>
        /\ Len(Appended) = 1
        /\ Appended[1].role = "tutor"
        /\ Appended[1].content \in Contained
        /\ Post.current_state = Pre.current_state
        /\ Post.questions_attempted = Pre.questions_attempted
        /\ Post.questions_correct = Pre.questions_correct

\* the grading responses that are not a JSON object with a feedback field
Malformed == {NotJson, "[1]", "null", "{correct:true}", "{}"}

\* C4: when the Evaluation model output is malformed, the turn appends one apology
\* message, changes no counter and no last_evaluation, and executes no further node.
C4_MalformedEvaluationIsContained ==
    (last.op = "advance" /\ \E v \in Malformed : Called("eval", v)) =>
        /\ ~ last.raised
        /\ Appended = << Msg("tutor", ApologyEvaluation) >>
        /\ Post.questions_attempted = Pre.questions_attempted
        /\ Post.questions_correct = Pre.questions_correct
        /\ Post.last_evaluation = Pre.last_evaluation
        /\ last.executed = << "evaluation" >>

\* C5: start runs Exposition exactly once and checkpoints a state with one message,
\* from the tutor, current_state exposition and all counters 0, whether the
\* exposition came from the cache, a fresh generation or a failed generation.
C5_StartRunsExpositionOnce ==
    last.op = "start" =>
        /\ ~ last.raised
        /\ last.executed = << "exposition" >>
        /\ agent_checkpoints[last.sid] # <<>>
        /\ Len(checkpoint(last.sid).messages) = 1
        /\ checkpoint(last.sid).messages[1].role = "tutor"
        /\ checkpoint(last.sid).current_state = "exposition"
        /\ checkpoint(last.sid).questions_attempted = 0
        /\ checkpoint(last.sid).questions_correct = 0
        /\ checkpoint(last.sid).hints_given = 0

\* a session started on a cache hit: the cached exposition is the only message and
\* no generation call is made
C5_StartedFromCache ==
    /\ last.op = "start"
    /\ last.calls = <<>>
    /\ checkpoint(last.sid).messages = << Msg("tutor", "E1") >>

\* C6: from current_state exposition, a student message with a question-request
\* keyword whose question generation succeeds ends the turn with questions_attempted
\* increased by exactly 1, last_question the generated question and current_state
\* questioning.
C6_QuestionRequestFromExposition ==
    \A question \in QuestionTexts :
        (/\ Advanced
         /\ Pre.current_state = "exposition"
         /\ last.message = "give me a question"
         /\ Called("q", question)) =>
            /\ Post.questions_attempted = Pre.questions_attempted + 1
            /\ Post.questions_attempted = 1
            /\ Post.last_question = question
            /\ Post.current_state = "questioning"
            /\ checkpoint(last.sid) = Post

C6_QuestionAsked ==
    /\ Advanced
    /\ Pre.current_state = "exposition"
    /\ last.message = "give me a question"
    /\ Called("q", "Q1")
    /\ checkpoint(last.sid).last_question = "Q1"

\* the last request graded an answer to a pending question as correct
GradedCorrect ==
    /\ Advanced
    /\ Pre.current_state = "questioning"
    /\ Pre.last_question # None
    /\ Called("eval", "{correct:true,feedback}")

CorrectAnswerOutcome ==
    /\ Post.questions_correct = Pre.questions_correct + 1
    /\ Post.hints_given = 0
    /\ last.executed = << "evaluation", "questioning" >>
    /\ Len(Appended) = 2
    /\ Appended[1] = Msg("tutor", Ack)
    /\ Appended[2] = Msg("tutor", Post.last_question)
    /\ Post.questions_attempted = Pre.questions_attempted + 1
    /\ Post.current_state = "questioning"

C8_IncorrectAnswerGetsFirstHint ==
    (/\ Advanced
     /\ Pre.current_state = "questioning"
     /\ Pre.last_question # None
     /\ Called("eval", "{correct:false,feedback}")
     /\ \E hint \in HintTexts : Called("soc", hint)) =>
        /\ last.executed = << "evaluation", "diagnosis", "socratic" >>
        /\ Len(Appended) = 2
        /\ Post.current_state = "socratic"
        /\ Post.hints_given = 1

\* the handler stored its final state
Checkpointed ==
    /\ ~ last.raised
    /\ agent_checkpoints[last.sid] # <<>>
    /\ checkpoint(last.sid) = Post

RetryContract ==
    /\ Len(g_log) <= 3
    /\ \A i \in DOMAIN g_log : i < Len(g_log) => g_log[i].outcome \in ProviderErrors
    /\ (g_log # <<>> /\ g_log[Len(g_log)].outcome \in Responses) =>
            g_result = << "return", g_log[Len(g_log)].outcome >>
    /\ g_pc = "done" =>
            /\ g_result # <<>>
            /\ g_result[1] = "raise" <=>
                    /\ Len(g_log) = 3
                    /\ \A i \in DOMAIN g_log : g_log[i].outcome \in ProviderErrors
            /\ g_result[1] = "raise" =>
                    g_result[2] = RuntimeErrorFrom(g_log[Len(g_log)].outcome)
            /\ g_result[1] = "return" => g_result[2] \in Responses
    /\ g_pc # "done" => g_result = <<>>

\* C10 as stated: generate returns the response of the first successful provider
\* attempt and makes no further attempt, makes at most 3 attempts, and raises,
\* carrying the last underlying error, exactly when all 3 attempts fail.
C10_GenerateRetriesAsStated == RetryContract

\* C10 amended: the same for a provider whose client _get_client can construct; for
\* an unknown provider, or google without its package, generate raises before any
\* provider attempt.
C10_GenerateRetries ==
    IF get_client(g_provider, g_genai) = "client"
    THEN RetryContract
    ELSE /\ g_log = <<>>
         /\ g_pc = "done" => g_result[1] = "raise" /\ g_result[2].type # "RuntimeError"

C10_ThirdAttemptFails ==
    /\ g_pc = "done"
    /\ Len(g_log) = 3
    /\ g_log[1].outcome = "error 1"
    /\ g_log[2].outcome = "error 1"
    /\ g_result = << "raise", RuntimeErrorFrom("error 2") >>

\* the direct writes of one kind made for one key, as positions of store_log
Writes(op, key) == {i \in DOMAIN store_log : store_log[i].op = op /\ store_log[i].key = key}

LastWrite(op, key) == store_log[CHOOSE i \in Writes(op, key) : \A j \in Writes(op, key) : j <= i]

FirstWrite(op, key) == store_log[CHOOSE i \in Writes(op, key) : \A j \in Writes(op, key) : i <= j]

\* C11: for every session id, load returns a state equal field for field to the state
\* most recently saved for that id (one row per session, a later save replaces the
\* earlier one), returns absent when nothing was saved for that id, and a save for one
\* session id leaves every other session's record unchanged.
C11_CheckpointRoundTrip ==
    /\ \A session_id \in SessionIds :
          /\ Len(agent_checkpoints[session_id]) <= 1
          /\ load_agent_checkpoint(agent_checkpoints, session_id) =
                IF Writes("save", session_id) = {} THEN <<>>
                ELSE << LastWrite("save", session_id).state >>
    /\ last.op = "load" =>
          last.result = IF Writes("save", last.sid) = {} THEN <<>>
                        ELSE << LastWrite("save", last.sid).state >>
    /\ last.op = "save" =>
          \A other \in SessionIds \ {last.sid} : agent_checkpoints[other] = last.cache[other]

\* a load after two different saves for its session, with another session saved too
C11_LoadedSecondSave ==
    /\ last.op = "load"
    /\ Cardinality(Writes("save", last.sid)) = 2
    /\ FirstWrite("save", last.sid).state # LastWrite("save", last.sid).state
    /\ last.result = << LastWrite("save", last.sid).state >>
    /\ last.result[1].last_question = "Q1"
    /\ last.result[1].last_student_answer # None

\* C12: for every subtopic id, put(id, content, model) followed by get(id) returns
\* exactly that content and that model identifier together with a generated_at
\* timestamp, and puts under other ids do not change what get(id) returns.
C12_CacheRoundTrip ==
    /\ \A subtopic_id \in DOMAIN cached_expositions :
          Writes("put", subtopic_id) # {} =>
             LET got == get_cached_exposition(cached_expositions, subtopic_id)
             IN  /\ got # <<>>
                 /\ DOMAIN got[1] = {"exposition_content", "generated_at", "model_identifier"}
                 /\ got[1].exposition_content = LastWrite("put", subtopic_id).content
                 /\ got[1].model_identifier = LastWrite("put", subtopic_id).model_identifier
                 /\ got[1].generated_at \in Nat
    /\ (last.op = "get" /\ Writes("put", last.sid) # {}) =>
          /\ last.result # <<>>
          /\ last.result[1].exposition_content = LastWrite("put", last.sid).content
          /\ last.result[1].model_identifier = LastWrite("put", last.sid).model_identifier
    /\ last.op = "put" =>
          \A other \in DOMAIN cached_expositions \ {last.sid} :
             get_cached_exposition(cached_expositions, other) =
                get_cached_exposition(last.cache, other)

\* a get of an id put with a model other than the configured one, after a put under
\* another id
C12_GotWhatWasPut ==
    /\ last.op = "get"
    /\ Len(store_log) = 2
    /\ store_log[1].key = last.sid
    /\ store_log[2].key # last.sid
    /\ store_log[1].model_identifier # LLM_MODEL
    /\ last.result[1].model_identifier = store_log[1].model_identifier
    /\ last.result[1].exposition_content = store_log[1].content

C14_CacheOverwrite ==
    \A subtopic_id \in DOMAIN cached_expositions :
        Cardinality(Writes("put", subtopic_id)) >= 2 =>
            /\ Len(cached_expositions[subtopic_id]) = 1
            /\ get_cached_exposition(cached_expositions, subtopic_id) =
                  << [exposition_content |-> LastWrite("put", subtopic_id).content,
                      generated_at |-> LastWrite("put", subtopic_id).at,
                      model_identifier |-> LastWrite("put", subtopic_id).model_identifier] >>
            /\ get_cached_exposition(cached_expositions, subtopic_id)[1].generated_at
                  # FirstWrite("put", subtopic_id).at

\* a get after two puts for its id that differ in content and in model
C14_GotSecondPut ==
    /\ last.op = "get"
    /\ Cardinality(Writes("put", last.sid)) = 2
    /\ FirstWrite("put", last.sid).content # LastWrite("put", last.sid).content
    /\ FirstWrite("put", last.sid).model_identifier # LastWrite("put", last.sid).model_identifier
    /\ last.result[1].exposition_content = LastWrite("put", last.sid).content

\* the last request ran Exposition once on a state without a student message
InitialExposition ==
    /\ last.op \in {"start", "retry"}
    /\ last.executed = << "exposition" >>
    /\ \A i \in DOMAIN Pre.messages : Pre.messages[i].role # "student"

\* the messages the last request appended
Added == drop(Post.messages, Len(Pre.messages))

\* C15: when Exposition runs for a session with no student message and the cache holds
\* an entry for the state's subtopic_id, the generation service is invoked zero times
\* and the single tutor message appended has exactly the cached content.
C15_ExpositionCacheHit ==
    (InitialExposition /\ last.cache[Pre.subtopic_id] # <<>>) =>
        /\ last.calls = <<>>
        /\ Added = << Msg("tutor", last.cache[Pre.subtopic_id][1].exposition_content) >>
        /\ ~ last.raised

\* a retry in a session whose own exposition had failed, served from what another
\* session cached since
C15_RetryServedFromCache ==
    /\ InitialExposition
    /\ last.op = "retry"
    /\ last.cache[Pre.subtopic_id] # <<>>
    /\ checkpoint(last.sid).messages = << Msg("tutor", ApologyExposition), Msg("tutor", "E1") >>

\* C16: when Exposition runs for a session with no student message and the cache has
\* no entry for the subtopic, the generation service is invoked exactly once, and on
\* success the generated text is both appended as the tutor message and stored in the
\* cache under the state's subtopic_id with the configured model identifier.
C16_ExpositionCacheMiss ==
    (InitialExposition /\ last.cache[Pre.subtopic_id] = <<>>) =>
        /\ Len(last.calls) = 1
        /\ last.calls[1][1] = "expo"
        /\ last.calls[1][2] # GenFail =>
              /\ Added = << Msg("tutor", last.calls[1][2]) >>
              /\ cached_expositions[Pre.subtopic_id] # <<>>
              /\ cached_expositions[Pre.subtopic_id][1].exposition_content = last.calls[1][2]
              /\ cached_expositions[Pre.subtopic_id][1].model_identifier = LLM_MODEL

\* a session started on an empty cache whose exposition was generated and stored
C16_GeneratedAndStored ==
    /\ InitialExposition
    /\ last.op = "start"
    /\ last.cache[Pre.subtopic_id] = <<>>
    /\ last.calls = << <<"expo", "E1">> >>
    /\ cached_expositions[Pre.subtopic_id][1].exposition_content = "E1"

\* the last step applied the router of node_name
Routed(node_name) == last.op = "route" /\ last.node = node_name

\* C17 as stated: the evaluation router returns questioning when last_evaluation is
\* graded correct and diagnosis in every other case (graded incorrect, absent, or an
\* empty object); it never returns suspend.
C17_EvaluationRouterAsStated ==
    Routed("evaluation") =>
        last.result =
            IF Pre.last_evaluation \in {"{correct:true,feedback}", "{correct:true}"}
            THEN "questioning" ELSE "diagnosis"

\* C17 amended: the evaluation router returns questioning when last_evaluation is an
\* object graded correct, diagnosis when it is a non-empty object not graded correct,
\* and suspend when last_evaluation is absent or an empty object; on a non-empty value
\* that is not an object it raises.
C17_EvaluationRouter ==
    Routed("evaluation") =>
        last.result =
            CASE Pre.last_evaluation \in {"{correct:true,feedback}", "{correct:true}"}
                    -> "questioning"
              [] Pre.last_evaluation = "{correct:false,feedback}" -> "diagnosis"
              [] Pre.last_evaluation \in {None, "{}"} -> "END"
              [] Pre.last_evaluation = "[1]" -> "raise"

C17_SuspendedOnAbsentEvaluation ==
    /\ Routed("evaluation")
    /\ Pre.last_evaluation = None
    /\ last.result = "END"

\* the contents that contain question, practice, try, test or quiz once lower-cased
KeywordContents == {"give me a question", "QUIZ", "poetry", "Test me"}

\* C18: the exposition router returns questioning exactly when messages is non-empty,
\* its last message has role student, and that message's lower-cased content contains
\* one of the keywords question, practice, try, test, quiz; in every other case it
\* returns suspend.
C18_ExpositionRouter ==
    Routed("exposition") =>
        last.result =
            IF /\ Pre.messages # <<>>
               /\ Pre.messages[Len(Pre.messages)].role = "student"
               /\ Pre.messages[Len(Pre.messages)].content \in KeywordContents
            THEN "questioning" ELSE "END"

C18_UpperCaseKeyword ==
    /\ Routed("exposition")
    /\ Pre.messages # <<>>
    /\ Pre.messages[Len(Pre.messages)] = Msg("student", "QUIZ")
    /\ last.result = "questioning"

Answered ==
    [kind \in CallKinds |->
        IF \E i \in DOMAIN last.calls : last.calls[i][1] = kind
        THEN last.calls[CHOOSE i \in DOMAIN last.calls : last.calls[i][1] = kind][2]
        ELSE GenFail]

\* C20: retry(session_id) executes exactly one node, the one named by the checkpointed
\* current_state, consults no router, appends no student message, and then saves the
\* resulting state as the checkpoint.
C20_RetryRunsCurrentNode ==
    last.op = "retry" =>
        /\ ~ last.raised
        /\ last.executed = << Pre.current_state >>
        /\ Post = node_map(Pre.current_state, Pre, last.cache, Answered).state
        /\ \A i \in DOMAIN Added : Added[i].role = "tutor"
        /\ agent_checkpoints[last.sid] # <<>>
        /\ checkpoint(last.sid) = Post

\* a retry of Evaluation that grades the answer as correct: Questioning does not follow
C20_RetriedEvaluation ==
    /\ last.op = "retry"
    /\ Pre.current_state = "evaluation"
    /\ Called("eval", "{correct:true,feedback}")
    /\ checkpoint(last.sid).current_state = "questioning"
    /\ checkpoint(last.sid).questions_correct = Pre.questions_correct + 1

\* the last request was a start, an advance or a retry that ran to its end
Completed == last.op \in {"start", "advance", "retry"} /\ ~ last.raised

\* C23: after every completed start, advance or retry, the session's message log
\* is, as a sequence of (role, content), the messages sequence of the checkpointed
\* TutorState: each message of the state was written to the log exactly once.
C23_LogEqualsCheckpointedMessages ==
    Completed => messages_db[last.sid] = checkpoint(last.sid).messages

\* C24: after every completed advance or retry, the session record's
\* questions_attempted and questions_correct equal those of the checkpointed state.
C24_SessionRecordMirrorsCounters ==
    (Completed /\ last.op \in {"advance", "retry"}) =>
        /\ get_session(last.sid)[1].questions_attempted
              = checkpoint(last.sid).questions_attempted
        /\ get_session(last.sid)[1].questions_correct
              = checkpoint(last.sid).questions_correct


\* the last request was one of the three session handlers
Handled == last.op \in {"start", "advance", "retry"}

\* the last request executed the Exposition node
RanExposition == \E i \in DOMAIN last.executed : last.executed[i] = "exposition"

\* C28: a request changes the exposition cache only when Exposition ran without a
\* student message in the state, the cache had no entry for the subtopic and the
\* generation returned a text; after a failed generation, a cache hit or a follow-up
\* the cache is exactly as it was before the request.
C28_CacheWriteOnlyAfterGeneration ==
    Handled =>
        \/ cached_expositions = last.cache
        \/ /\ InitialExposition
           /\ last.cache[Pre.subtopic_id] = <<>>
           /\ \E text \in ExpoTexts : text # GenFail /\ Called("expo", text)
           /\ \A other \in SubtopicIds \ {Pre.subtopic_id} :
                 cached_expositions[other] = last.cache[other]

\* a follow-up answer was generated while the cache had no entry, and it still has none
C28_FollowupNotCached ==
    /\ last.op = "advance"
    /\ last.executed = << "exposition" >>
    /\ \E text \in FollowupTexts : text # GenFail /\ Called("followup", text)
    /\ last.cache[Pre.subtopic_id] = <<>>
    /\ cached_expositions[Pre.subtopic_id] = <<>>

\* the state Exposition was given by the last request: the checkpoint loaded, with
\* the student message when the request is a turn
GivenToExposition ==
    IF last.op = "advance" THEN with_student_message(Pre, last.message) ELSE Pre

\* C29: every execution of Exposition (cache hit, cache miss, follow-up or failed
\* generation) appends exactly one message, of role tutor, and leaves current_state,
\* questions_attempted, questions_correct, last_question and last_evaluation unchanged.
C29_ExpositionAppendsOneMessage ==
    (Handled /\ RanExposition) =>
        /\ last.executed = << "exposition" >>
        /\ Len(Post.messages) = Len(GivenToExposition.messages) + 1
        /\ SubSeq(Post.messages, 1, Len(GivenToExposition.messages))
              = GivenToExposition.messages
        /\ Post.messages[Len(Post.messages)].role = "tutor"
        /\ Post.current_state = GivenToExposition.current_state
        /\ Post.questions_attempted = GivenToExposition.questions_attempted
        /\ Post.questions_correct = GivenToExposition.questions_correct
        /\ Post.last_question = GivenToExposition.last_question
        /\ Post.last_evaluation = GivenToExposition.last_evaluation

\* a follow-up whose generation failed: one apology appended, still in exposition
C29_FailedFollowup ==
    /\ last.op = "advance"
    /\ last.executed = << "exposition" >>
    /\ Called("followup", GenFail)
    /\ Appended = << Msg("tutor", ApologyFollowup) >>
    /\ Post.current_state = "exposition"

\* C30: in a turn that starts in exposition with a student message for which the
\* exposition router yields questioning, Exposition is not executed (no exposition
\* generation, the cache left as it was) and Questioning is the only node executed.
C30_KeywordSkipsExposition ==
    (/\ last.op = "advance"
     /\ Pre.current_state = "exposition"
     /\ route_from_exposition(with_student_message(Pre, last.message)) = "questioning") =>
        /\ last.executed = << "questioning" >>
        /\ \A i \in DOMAIN last.calls : last.calls[i][1] \notin {"expo", "followup"}
        /\ cached_expositions = last.cache
        /\ ~ last.raised

\* a keyword message in exposition with an empty cache: a question was generated
C30_QuestionWithoutExposition ==
    /\ last.op = "advance"
    /\ Pre.current_state = "exposition"
    /\ last.message = "give me a question"
    /\ last.cache[Pre.subtopic_id] = <<>>
    /\ last.executed = << "questioning" >>
    /\ \E text \in QuestionTexts : text # GenFail /\ Called("q", text)
    /\ Post.current_state = "questioning"


\* requests considered after a suspended state when looking for a continuation
MaxContinuation == 2

\* What one more request of the student can make of a suspended state: a message
\* (post_chat_message) or a retry (retry_last_message), under every behaviour of
\* the generation service.  A request that raises saves nothing.
Continuations(state, cache) ==
    UNION { { run_nodes("advance", with_student_message(state, message), cache, o) :
                o \in Oracles("advance", with_student_message(state, message), cache) } :
            message \in StudentInputs }
    \cup { run_nodes("retry", state, cache, o) : o \in Oracles("retry", state, cache) }

\* the positions at which the run had an answer graded by Evaluation
GradedAt(run) ==
    {i \in DOMAIN run.calls : run.calls[i][1] = "eval" /\ run.calls[i][2] \in JsonValues}

\* the positions at which the run generated a question
QuestionAt(run) ==
    {j \in DOMAIN run.calls : run.calls[j][1] = "q" /\ run.calls[j][2] # GenFail}

\* Some continuation of at most `depth` requests has an answer graded and, after
\* that, a new question generated.
RECURSIVE GradedThenQuestion(_, _, _, _)
GradedThenQuestion(state, cache, depth, graded) ==
    /\ depth > 0
    /\ \E run \in Continuations(state, cache) :
          /\ ~ run.raised
          /\ \/ \E j \in QuestionAt(run) : graded \/ \E i \in GradedAt(run) : i < j
             \/ GradedThenQuestion(run.state, run.cache, depth - 1,
                                   graded \/ GradedAt(run) # {})

\* C27: no suspended state is terminal or absorbing: from the state checkpointed by
\* every request (socratic included) some continuation of student messages and
\* generation outcomes has an answer graded by Evaluation and then a new question
\* generated.
C27_GradingStaysReachable ==
    (Handled /\ agent_checkpoints[last.sid] # <<>>) =>
        GradedThenQuestion(checkpoint(last.sid), cached_expositions, MaxContinuation, FALSE)

\* Every request on a session suspended in socratic or diagnosis runs no Evaluation
\* and no Questioning and leaves the session in socratic.
SocraticAbsorbs ==
    (Handled /\ last.op # "start" /\ Pre.current_state \in {"socratic", "diagnosis"}) =>
        /\ \A i \in DOMAIN last.executed : last.executed[i] \in {"diagnosis", "socratic"}
        /\ Post.current_state = "socratic"
        /\ ~ last.raised


\* C25: once put, a cached exposition stays retrievable with the same content after
\* every operation other than a put for the same id: no session request (start,
\* advance, retry), progress reset or syllabus upload removes or alters an entry
\* the cache held before it.
C25_CachedExpositionStays ==
    last.op \in {"start", "advance", "retry", "reset_progress", "upload_syllabus"} =>
        \A k \in DOMAIN last.cache :
            last.cache[k] # <<>> =>
                /\ get_cached_exposition(cached_expositions, k) # <<>>
                /\ get_cached_exposition(cached_expositions, k)[1].exposition_content
                      = last.cache[k][1].exposition_content

\* C26: loading a syllabus preserves progress data: every progress row that existed
\* before load_syllabus_from_json is present afterwards with the same
\* questions_attempted, questions_correct and is_complete.
C26_SyllabusLoadPreservesProgress ==
    last.op = "upload_syllabus" =>
        \A t \in DOMAIN last.progress :
            last.progress[t] # <<>> => progress[t] = last.progress[t]


\* the requests in flight on a session
InFlight(session_id) ==
    {slot \in Slots : inflight[slot] # <<>> /\ inflight[slot][1].sid = session_id}

\* no two requests of one session are in flight at the same time
NoOverlap == \A session_id \in SessionIds : Cardinality(InFlight(session_id)) <= 1

IsPrefix(s, r) == Len(s) <= Len(r) /\ SubSeq(r, 1, Len(s)) = s

\* the checkpoint a completed turn saves keeps every message of the one it replaces
NoLostUpdate ==
    (/\ last.op \in {"advance", "retry"}
     /\ ~ last.raised
     /\ "overwritten" \in DOMAIN last) =>
        IsPrefix(json_loads(last.overwritten[1]).messages, checkpoint(last.sid).messages)

\* C21: for one session id no two turns (advance or retry) are in flight at the same
\* time, their load-checkpoint / run-nodes / save-checkpoint cycles never overlap,
\* so the checkpoint saved by a turn keeps the student messages of the turns saved
\* before it (no lost update).
C21_TurnsOfASessionDoNotOverlap == NoOverlap /\ NoLostUpdate

\* C22: under any interleaving of the requests of two sessions, a step of a start,
\* advance or retry on session A leaves the checkpoint, the message log and the
\* session-record counters of every other session B unchanged.
C22_SessionsAreIndependent ==
    [][\A b \in SessionIds \ {last'.sid} :
          /\ agent_checkpoints'[b] = agent_checkpoints[b]
          /\ messages_db'[b] = messages_db[b]
          /\ sessions'[b] = sessions[b]]_vars

\* a turn of session 1 that asked a question completed while a turn of session 2
\* was in flight: session 2 has its checkpoint and its counters are still 0
C22_TurnBesideOtherSession ==
    /\ last.op = "advance"
    /\ last.sid = 1
    /\ ~ last.raised
    /\ Post.questions_attempted = 1
    /\ \E slot \in InFlight(2) : inflight[slot][1].op = "advance"
    /\ agent_checkpoints[2] # <<>>
    /\ checkpoint(2) = inflight[CHOOSE slot \in InFlight(2) : TRUE][1].pre[1]
    /\ get_session(2)[1].questions_attempted = 0


\* the provider attempts of the current call that failed
FailedAttempts == {i \in DOMAIN g_log : g_log[i].outcome \in ProviderErrors}

\* C31: after the failed attempt number k (from 0) and before the next attempt,
\* generate waits 2^k seconds (1 s after the first failure, 2 s after the second);
\* it waits once per failed attempt that is followed by another attempt, and not
\* after the final failed attempt before raising.
C31_BackoffSchedule ==
    /\ \A i \in DOMAIN g_sleeps : g_sleeps[i] = 2 ^ (i - 1)
    /\ g_pc = "attempt" => Len(g_sleeps) = Cardinality(FailedAttempts)
    /\ g_pc = "sleep" => Len(g_sleeps) = Cardinality(FailedAttempts) - 1
    /\ (g_pc = "done" /\ g_result[1] = "return") =>
            Len(g_sleeps) = Cardinality(FailedAttempts)
    /\ (g_pc = "done" /\ g_result[1] = "raise" /\ g_log # <<>>) =>
            /\ Cardinality(FailedAttempts) = max_retries
            /\ Len(g_sleeps) = max_retries - 1

\* three failed attempts: waits of 1 s and 2 s, and none before raising
C31_WaitedOneThenTwo ==
    /\ g_pc = "done"
    /\ g_result[1] = "raise"
    /\ Cardinality(FailedAttempts) = 3
    /\ g_sleeps = << 1, 2 >>


\* the last request ran Questioning and the question was generated
QuestionGenerated ==
    /\ Handled
    /\ \E i \in DOMAIN last.executed : last.executed[i] = "questioning"
    /\ \E text \in QuestionTexts : Called("q", text)

\* C32: after Questioning generates a question, calculator_visible is true when the
\* classifier answered NUMERICAL and false when it answered NON_NUMERICAL.
C32_CalculatorFollowsClassifier ==
    QuestionGenerated =>
        /\ Called("calc", "NUMERICAL") => Post.calculator_visible = TRUE
        /\ Called("calc", "NON_NUMERICAL") => Post.calculator_visible = FALSE


\* the messages the nodes of the last request appended
NodeMessages == IF last.op = "advance" THEN Appended ELSE Added

C34_EvaluationWithoutAnswerIsNoOp ==
    (/\ last.op = "node"
     /\ last.node = "evaluation"
     /\ Pre.last_student_answer \in {None, ""}) =>
        /\ ~ last.raised
        /\ last.calls = <<>>
        /\ Post = Pre


\* C35: messages is append-only: for every start, advance and retry handled one at
\* a time, the messages of the checkpoint before the request are a prefix of the
\* messages of the checkpoint after it, and subtopic_id and subtopic_name are the
\* ones the session was started with.
C35_MessagesAppendOnly ==
    (Handled /\ agent_checkpoints[last.sid] # <<>>) =>
        /\ IsPrefix(Pre.messages, checkpoint(last.sid).messages)
        /\ checkpoint(last.sid).subtopic_id = Pre.subtopic_id
        /\ checkpoint(last.sid).subtopic_name = Pre.subtopic_name
        /\ checkpoint(last.sid).subtopic_id = get_session(last.sid)[1].subtopic_id

\* a turn on a transcript of three messages that added a student message and a reply
C35_TranscriptGrew ==
    /\ last.op = "advance"
    /\ ~ last.raised
    /\ Len(Pre.messages) = 3
    /\ Len(checkpoint(last.sid).messages) = 5
    /\ checkpoint(last.sid).messages[4] = Msg("student", last.message)


\* the turn before the last request ended without a contained failure: the last
\* message of the checkpoint it left is a tutor message that is no apology and no
\* fallback hint
PreviousTurnSucceeded ==
    /\ Pre.messages # <<>>
    /\ Pre.messages[Len(Pre.messages)].role = "tutor"
    /\ Pre.messages[Len(Pre.messages)].content \notin Contained

\* C36: retry acts only on a failed last call: when the previous turn of the session
\* completed without a contained failure, a retry leaves questions_attempted,
\* questions_correct and last_question unchanged.
C36_RetryAfterSuccessChangesNothing ==
    (last.op = "retry" /\ PreviousTurnSucceeded) =>
        /\ Post.questions_attempted = Pre.questions_attempted
        /\ Post.questions_correct = Pre.questions_correct
        /\ Post.last_question = Pre.last_question


\* every turn executes at most 3 nodes and stops before the iteration cap
TurnRunsAtMostThreeNodes ==
    last.op = "advance" =>
        /\ Len(last.executed) <= 3
        /\ Len(last.executed) < max_iterations

\* C37: with the five real routers every turn executes at most 3 nodes, the
\* iteration cap of 10 is never reached, and every turn terminates and checkpoints
\* the state it reached, for every reachable starting state and generation outcome.
C37_TurnsTerminateAndCheckpoint ==
    last.op = "advance" =>
        /\ TurnRunsAtMostThreeNodes
        /\ ~ last.raised
        /\ checkpoint(last.sid) = Post

\* C38: whenever a turn ends with the checkpointed current_state = questioning, a
\* question is pending: last_question is set and is the content of the last tutor
\* message, and questions_attempted >= 1.
C38_QuestionPendingInQuestioning ==
    (Advanced /\ checkpoint(last.sid).current_state = "questioning") =>
        LET state == checkpoint(last.sid)
            tutor == tutor_messages(state.messages)
        IN  /\ state.last_question # None
            /\ tutor # <<>>
            /\ tutor[Len(tutor)].content = state.last_question
            /\ state.questions_attempted >= 1

\* the generation calls of one kind the last request made
CallsOf(kind) == {i \in DOMAIN last.calls : last.calls[i][1] = kind}

\* C40: questions_attempted and questions_correct never decrease and each grows by
\* at most 1 in a single advance or retry: at most one question is generated and
\* at most one answer is graded per request.
C40_CountersGrowByAtMostOne ==
    (Handled /\ last.op # "start") =>
        /\ Post.questions_attempted \in {Pre.questions_attempted, Pre.questions_attempted + 1}
        /\ Post.questions_correct \in {Pre.questions_correct, Pre.questions_correct + 1}
        /\ Cardinality(CallsOf("q")) <= 1
        /\ Cardinality(CallsOf("eval")) <= 1
        /\ (~ last.raised) =>
              /\ checkpoint(last.sid).questions_attempted = Post.questions_attempted
              /\ checkpoint(last.sid).questions_correct = Post.questions_correct
        /\ last.raised =>
              /\ checkpoint(last.sid).questions_attempted = Pre.questions_attempted
              /\ checkpoint(last.sid).questions_correct = Pre.questions_correct

\* a turn that graded an answer as correct and asked the next question: both
\* counters grew by one
C40_BothCountersGrew ==
    /\ Advanced
    /\ last.executed = << "evaluation", "questioning" >>
    /\ Called("eval", "{correct:true,feedback}")
    /\ \E text \in QuestionTexts : Called("q", text)
    /\ checkpoint(last.sid).questions_attempted = Pre.questions_attempted + 1
    /\ checkpoint(last.sid).questions_correct = Pre.questions_correct + 1
    /\ Pre.questions_attempted = 1


\* C39: for a subtopic whose cache entry is never invalidated, the generation
\* service returns an initial exposition at most once across all the sessions of
\* the subtopic, two sessions started concurrently on an empty cache included;
\* every later session reuses the cached text.
C39_ExpositionGeneratedOnce ==
    \A t \in SubtopicIds : ExpoGenerated[t] <= 1


====
